---- MODULE Spec2Model ----
(***************************************************************************)
(* Open-Overlay designer: the global keyframe interpolation engine, the    *)
(* keyframe management operations of the timeline and the playback clock.  *)
(*                                                                         *)
(* Numbers.  Times are integers counted in units of 2.5 ms (0.01 s is 4    *)
(* units and 1 s is 400 units).  Property values and eased progress are    *)
(* exact rationals <<n, d>> with d > 0 in lowest terms; JavaScript doubles *)
(* are modelled by exact arithmetic.                                       *)
(***************************************************************************)
EXTENDS Integers, Sequences, FiniteSets, TLC

\* ------------------------------------------------------------------------
\* Exact rational arithmetic (the model of JavaScript number arithmetic)
\* ------------------------------------------------------------------------
Abs(x) == IF x < 0 THEN -x ELSE x

RECURSIVE GCD(_, _)
GCD(a, b) == IF b = 0 THEN a ELSE GCD(b, a % b)

\* n / d.  As in JavaScript a zero divisor does not throw: it yields
\* Infinity, -Infinity or NaN, written <<1, 0>>, <<-1, 0>> and <<0, 0>>.
Rat(n, d) ==
  IF d = 0 THEN <<(IF n > 0 THEN 1 ELSE IF n < 0 THEN -1 ELSE 0), 0>>
  ELSE LET g == GCD(Abs(n), Abs(d))
           s == IF d < 0 THEN -1 ELSE 1
       IN  <<(s * n) \div g, (s * d) \div g>>

Num(n) == <<n, 1>>
Zero == Num(0)
One == Num(1)
\* Sums and products cancel common factors before multiplying; a non-finite
\* operand gives a non-finite result.
RAdd(a, b) ==
  IF a[2] = 0 \/ b[2] = 0 THEN <<0, 0>>
  ELSE LET g == GCD(a[2], b[2])
       IN  Rat(a[1] * (b[2] \div g) + b[1] * (a[2] \div g), (a[2] \div g) * b[2])
RNeg(a) == <<-a[1], a[2]>>
RSub(a, b) == RAdd(a, RNeg(b))
RMul(a, b) ==
  IF a[2] = 0 \/ b[2] = 0 THEN <<0, 0>>
  ELSE LET g1 == GCD(Abs(a[1]), b[2])
           g2 == GCD(Abs(b[1]), a[2])
       IN  Rat((a[1] \div g1) * (b[1] \div g2), (a[2] \div g2) * (b[2] \div g1))
RLess(a, b) == a[1] * b[2] < b[1] * a[2]
RLeq(a, b) == a[1] * b[2] <= b[1] * a[2]
IsFinite(a) == a[2] > 0

\* ------------------------------------------------------------------------
\* Keyframe interpolation engine.  The numeric animatable properties are
\* modelled; the three colour properties (blended by lerpColor) are not.
\* ------------------------------------------------------------------------
NUMERIC_KEYFRAME_PROPS ==
  {"x", "y", "width", "height", "rotation", "opacity", "strokeWidth",
   "borderRadius", "fontSize", "letterSpacing", "lineHeight", "blur",
   "brightness", "contrast", "hueRotate", "saturate", "scaleX", "scaleY"}

EasingType ==
  {"linear", "ease-in", "ease-out", "ease-in-out", "cubic-bezier",
   "step-start", "step-end", "bounce", "elastic"}

\* 'bounce': the four quadratic segments; 7.5625 = 121/16, 1/2.75 = 4/11.
bounce(t) ==
  LET k == Rat(121, 16)
      seg(shift, lift) ==
        LET u == RSub(t, shift) IN RAdd(RMul(k, RMul(u, u)), lift)
  IN  IF RLess(t, Rat(4, 11)) THEN RMul(k, RMul(t, t))
      ELSE IF RLess(t, Rat(8, 11)) THEN seg(Rat(6, 11), Rat(3, 4))
      ELSE IF RLess(t, Rat(10, 11)) THEN seg(Rat(9, 11), Rat(15, 16))
      ELSE seg(Rat(21, 22), Rat(63, 64))

\* 'elastic': -2^(10(t-1)) * sin((t-1.1)*5*pi) strictly inside (0,1).  The
\* curve is rational at the quarter points (1/4 -> 1/256, 1/2 -> 0,
\* 3/4 -> -1/8); between them the transcendental value is approximated by
\* the chord through the two neighbouring quarter points.
elasticKnot(i) ==
  CASE i = 0 -> Zero [] i = 1 -> Rat(1, 256) [] i = 2 -> Zero
    [] i = 3 -> Rat(-1, 8) [] i = 4 -> One

elastic(t) ==
  IF t = Zero THEN Zero
  ELSE IF t = One THEN One
  ELSE LET i == (4 * t[1]) \div t[2]
           frac == RSub(RMul(Num(4), t), Num(i))
       IN  RAdd(elasticKnot(i),
                RMul(RSub(elasticKnot(i + 1), elasticKnot(i)), frac))

easingFn(t, type) ==
  CASE type = "linear" -> t
    [] type = "ease-in" -> RMul(t, t)
    [] type = "ease-out" -> RMul(t, RSub(Num(2), t))
    [] type = "ease-in-out" ->
         IF RLess(t, Rat(1, 2)) THEN RMul(Num(2), RMul(t, t))
         ELSE RAdd(Num(-1), RMul(RSub(Num(4), RMul(Num(2), t)), t))
    [] type = "bounce" -> bounce(t)
    [] type = "elastic" -> elastic(t)
    [] OTHER -> t

\* The empty override map {}.
EmptyState == [p \in {} |-> Zero]

\* [...keyframes].sort((a,b) => a.time - b.time): a stable sort, keyframes
\* of equal time keep their stored order.
RECURSIVE insertByTime(_, _)
insertByTime(sorted, kf) ==
  IF sorted = <<>> THEN <<kf>>
  ELSE IF sorted[Len(sorted)].time <= kf.time THEN Append(sorted, kf)
  ELSE Append(insertByTime(SubSeq(sorted, 1, Len(sorted) - 1), kf),
              sorted[Len(sorted)])

RECURSIVE sortByTime(_)
sortByTime(kfs) ==
  IF kfs = <<>> THEN <<>>
  ELSE insertByTime(sortByTime(SubSeq(kfs, 1, Len(kfs) - 1)), kfs[Len(kfs)])

\* kf.elementStates[elId] ?? {}
getState(kf, elId) ==
  IF elId \in DOMAIN kf.elementStates THEN kf.elementStates[elId]
  ELSE EmptyState

\* The loop of lines 517-522: the first adjacent pair of the sorted list
\* that brackets the time, defaulting to the first pair.
bracketIndex(sorted, time) ==
  LET hits == {i \in 1..(Len(sorted) - 1) :
                 time >= sorted[i].time /\ time <= sorted[i + 1].time}
  IN  IF hits = {} THEN 1
      ELSE CHOOSE i \in hits : \A j \in hits : i <= j

\* Faults of rawProgress: the offset of prev.time dropped; the guard dropped.
rawProgress_FromZero(prev, next, time) ==
  LET span == next.time - prev.time
  IN  IF span > 0 THEN Rat(time, span) ELSE One

rawProgress_Unguarded(prev, next, time) ==
  Rat(time - prev.time, next.time - prev.time)

\* span > 0 ? (time - prev.time) / span : 1
rawProgress(prev, next, time) ==
  LET span == next.time - prev.time
  IN  IF span > 0 THEN Rat(time - prev.time, span) ELSE One

\* Fault of endpoint: a missing side falls to 0, not to the base element.
endpoint_ZeroFallback(state, el, prop) ==
  IF prop \in DOMAIN state THEN state[prop] ELSE Zero

\* (pv as number) ?? (el as any)[prop] ?? 0
endpoint(state, el, prop) ==
  IF prop \in DOMAIN state THEN state[prop]
  ELSE IF prop \in DOMAIN el.props THEN el.props[prop]
  ELSE Zero

\* result[prop] = a + (b - a) * t
blend(a, b, t) == RAdd(a, RMul(RSub(b, a), t))

\* Fault of interpolateBetween: the easing of the later keyframe is applied.
interpolateBetween_NextEasing(prev, next, elId, el, time) ==
  LET prevState == getState(prev, elId)
      nextState == getState(next, elId)
      t == easingFn(rawProgress(prev, next, time), next.easing)
      allProps == DOMAIN prevState \cup DOMAIN nextState
  IN  [prop \in allProps \cap NUMERIC_KEYFRAME_PROPS |->
         blend(endpoint(prevState, el, prop), endpoint(nextState, el, prop), t)]

interpolateBetween(prev, next, elId, el, time) ==
  LET prevState == getState(prev, elId)
      nextState == getState(next, elId)
      t == easingFn(rawProgress(prev, next, time), prev.easing)
      allProps == DOMAIN prevState \cup DOMAIN nextState
  IN  [prop \in allProps \cap NUMERIC_KEYFRAME_PROPS |->
         blend(endpoint(prevState, el, prop), endpoint(nextState, el, prop), t)]

\* Fault of interpolateElementFromGlobal: outside the keyframes' time range
\* no override is returned (the element falls back to its base values).
interpolateElementFromGlobal_NoClamp(keyframes, elId, el, time) ==
  IF Len(keyframes) = 0 THEN EmptyState
  ELSE
    LET sorted == sortByTime(keyframes)
        n == Len(sorted)
    IN  IF time < sorted[1].time \/ time > sorted[n].time THEN EmptyState
        ELSE IF time = sorted[1].time THEN getState(sorted[1], elId)
        ELSE IF time = sorted[n].time THEN getState(sorted[n], elId)
        ELSE LET i == bracketIndex(sorted, time)
             IN  interpolateBetween(sorted[i], sorted[i + 1], elId, el, time)

interpolateElementFromGlobal(keyframes, elId, el, time) ==
  IF Len(keyframes) = 0 THEN EmptyState
  ELSE
    LET sorted == sortByTime(keyframes)
        n == Len(sorted)
    IN  IF time <= sorted[1].time THEN getState(sorted[1], elId)
        ELSE IF time >= sorted[n].time THEN getState(sorted[n], elId)
        ELSE LET i == bracketIndex(sorted, time)
             IN  interpolateBetween(sorted[i], sorted[i + 1], elId, el, time)

\* The identity of a returned map: an object made by the call, or the
\* snapshot object stored in the keyframe of the given id
NoObject == [made |-> FALSE, fresh |-> FALSE, snapshotOf |-> 0]
Fresh == [made |-> TRUE, fresh |-> TRUE, snapshotOf |-> 0]
SnapshotOf(kf) == [made |-> TRUE, fresh |-> FALSE, snapshotOf |-> kf.id]

\* Fault of objectReturned: outside the keyframes' range the stored snapshot
\* itself is returned
objectReturned_Unspread(keyframes, elId, time) ==
  IF Len(keyframes) = 0 THEN Fresh
  ELSE
    LET sorted == sortByTime(keyframes)
        n == Len(sorted)
    IN  IF time <= sorted[1].time /\ elId \in DOMAIN sorted[1].elementStates
          THEN SnapshotOf(sorted[1])
        ELSE IF time >= sorted[n].time
                  /\ elId \in DOMAIN sorted[n].elementStates
          THEN SnapshotOf(sorted[n])
        ELSE Fresh

\* The object interpolateElementFromGlobal returns: the literal {} of line
\* 508, the spread copies { ...getState(..) } of lines 514-515, or the
\* result object made at line 530
objectReturned(keyframes, elId, time) ==
  IF Len(keyframes) = 0 THEN Fresh
  ELSE
    LET sorted == sortByTime(keyframes)
        n == Len(sorted)
    IN  IF time <= sorted[1].time THEN Fresh
        ELSE IF time >= sorted[n].time THEN Fresh
        ELSE Fresh

\* Fault of keyframesAfterCall: the argument itself is sorted
keyframesAfterCall_SortedInPlace(keyframes) == sortByTime(keyframes)

\* The keyframes argument after the call: line 509 sorts the copy
\* [...keyframes], and the rest of the call only reads
keyframesAfterCall(keyframes) == keyframes

\* ------------------------------------------------------------------------
\* State
\* ------------------------------------------------------------------------
VARIABLES
  argKeyframes,   \* interpolateElementFromGlobal: the keyframes argument
  argEl,          \* ... the base element argument (elId is argEl.id)
  argTime,        \* ... the query time argument
  result,         \* ... [returned, overrides]: the override map it returned
  returnedObject, \* ... which object the returned map is
  callLog,        \* ... the calls made so far: arguments and returned map
  elements,       \* activeWidget.elements: the element tree
  duration,       \* timeline.duration
  keyframes,      \* timeline.keyframes, in stored order
  selectedKeyframeId,
  currentTime,    \* the query time
  nextId,         \* the next id uuidv4() hands out
  edits,          \* the number of designer operations performed so far
  loop,           \* timeline.loop
  speed,          \* timeline.speed, in quarters (4 is 1x)
  isPlaying,
  isScrubbing,
  sincePlayStart, \* performance.now() - playStartRef.current
  playTimeOffsetRef,
  animFrameRef,   \* TRUE while the frame callback it refers to is scheduled
  orphanFrames,   \* scheduled frame callbacks animFrameRef does not refer to
  tickTimeline,   \* the timeline the scheduled tick closure captured
  boxEl,          \* TransformBox: the el prop (x, y, width, height, rotation)
  scale,          \* ... the scale prop (canvas zoom)
  gesture,        \* ... what the pointer handlers in flight captured
  emitted,        \* ... the patch of the latest onUpdate call
  gestures,       \* the number of gestures started so far
  surface,        \* canvas: the group g1 and its child e1 as rendered
  selectedId,     \* ... the selected element (last of selectedPath)
  activeTool,
  listeners,      \* ... the registered gesture listeners, oldest first
  pressed,        \* ... the pointer button is down
  presses,        \* the number of pointer presses so far
  tree,           \* layers: activeWidget.elements as a tree of nodes
  treeSelected,   \* ... the selected element's id, 0 for none
  clipboard,      \* ... no or one copied element
  treeNextId,     \* ... the next id uuidv4() hands out
  treeOps,        \* the number of layer operations so far
  activeWidgetId,
  inactiveWidgets \* workspace.widgets without the active widget

interpVars == <<argKeyframes, argEl, argTime, result, returnedObject, callLog>>
designerVars == <<elements, duration, keyframes, selectedKeyframeId,
                  currentTime, nextId, edits>>
clockVars == <<loop, speed, isPlaying, isScrubbing, sincePlayStart,
               playTimeOffsetRef, animFrameRef, orphanFrames, tickTimeline>>
boxVars == <<boxEl, scale, gesture, emitted, gestures>>
surfaceVars == <<surface, selectedId, activeTool, listeners, pressed, presses>>
treeVars == <<tree, treeSelected, clipboard, treeNextId, treeOps>>
widgetVars == <<activeWidgetId, inactiveWidgets>>
vars == <<interpVars, designerVars, clockVars, boxVars, surfaceVars, treeVars,
          widgetVars>>

Pending == [returned |-> FALSE, overrides |-> EmptyState]
Returned(map) == [returned |-> TRUE, overrides |-> map]

\* No call has been made
CallIdle ==
  /\ returnedObject = NoObject
  /\ callLog = <<>>

\* ------------------------------------------------------------------------
\* TransformBox: the move and resize gestures on a canvas element.
\* Lengths are exact rationals in canvas units; pointer deltas are whole
\* screen pixels.
\* ------------------------------------------------------------------------
\* a / b as JavaScript divides: a zero divisor gives Infinity or NaN.
RDiv(a, b) ==
  IF a[2] = 0 \/ b[2] = 0 THEN <<0, 0>>
  ELSE IF b[1] = 0 THEN Rat(a[1], 0)
  ELSE RMul(a, Rat(b[2], b[1]))

Half(a) == RMul(a, Rat(1, 2))

\* Math.max(a, b): NaN when an operand is NaN
mathMax(a, b) ==
  IF a = <<0, 0>> \/ b = <<0, 0>> THEN <<0, 0>>
  ELSE IF RLess(a, b) THEN b ELSE a

\* Math.round(a): the nearest integer, halves towards +Infinity
mathRound(a) ==
  IF ~IsFinite(a) THEN a ELSE Num((2 * a[1] + a[2]) \div (2 * a[2]))

\* Math.max(4, ...) of the resize gesture
MinSize == 4

\* Rotations in degrees at which cosine and sine are rational: none, a
\* quarter turn, a half turn, and 53, which stands for atan(4/3) = 53.13...
\* degrees.
Rotations == {0, 53, 90, 180}

\* Math.cos(rot * Math.PI / 180) and Math.sin(rot * Math.PI / 180)
cosDeg(rot) ==
  CASE rot = 0 -> One
    [] rot = 53 -> Rat(3, 5)
    [] rot = 90 -> Zero
    [] rot = 180 -> Num(-1)
sinDeg(rot) ==
  CASE rot = 0 -> Zero
    [] rot = 53 -> Rat(4, 5)
    [] rot = 90 -> One
    [] rot = 180 -> Zero

\* The containerW and containerH props: the widget's size
containerW == 20
containerH == 12

\* The eight resize handles
Handles == {"n", "s", "e", "w", "ne", "nw", "se", "sw"}
\* dir.includes(c)
includes(dir, c) ==
  CASE c = "n" -> dir \in {"n", "ne", "nw"}
    [] c = "s" -> dir \in {"s", "se", "sw"}
    [] c = "e" -> dir \in {"e", "ne", "se"}
    [] c = "w" -> dir \in {"w", "nw", "sw"}

\* Fault of clampCenter: no clamping
clampCenter_None(n, size, container) == n

\* if (c < 0) n = -size / 2; if (c > container) n = container - size / 2,
\* where c = n + size / 2 is the center before either assignment
clampCenter(n, size, container) ==
  LET c == RAdd(n, Half(size))
  IN  IF RLess(Num(container), c) THEN RSub(Num(container), Half(size))
      ELSE IF RLess(c, Zero) THEN RNeg(Half(size))
      ELSE n

\* handleDragDown's onMove: the patch for a pointer dpx, dpy screen pixels
\* away from where it went down
dragOnMoveIn(g, dpx, dpy, cw, ch) ==
  LET dx == RDiv(Num(dpx), g.scale)
      dy == RDiv(Num(dpy), g.scale)
  IN  [x |-> clampCenter(RAdd(g.startElX, dx), g.el.width, cw),
       y |-> clampCenter(RAdd(g.startElY, dy), g.el.height, ch)]

\* ... of a box rendered in the widget
dragOnMove(g, dpx, dpy) == dragOnMoveIn(g, dpx, dpy, containerW, containerH)

\* Fault of resizedSize: no minimum
resizedSize_NoMinimum(start, d) == RAdd(start, d)

\* Math.max(4, start + d)
resizedSize(start, d) == mathMax(Num(MinSize), RAdd(start, d))

\* handleResizeDown's onMove, for a box rendered in a container cw x ch
resizeOnMoveIn(g, dpx, dpy, cw, ch) ==
  LET dx == RDiv(Num(dpx), g.scale)
      dy == RDiv(Num(dpy), g.scale)
      cosR == cosDeg(g.rot)
      sinR == sinDeg(g.rot)
      \* cos(-rad) = cos(rad) and sin(-rad) = -sin(rad)
      dx_local == RSub(RMul(dx, cosR), RMul(dy, RNeg(sinR)))
      dy_local == RAdd(RMul(dx, RNeg(sinR)), RMul(dy, cosR))
      dw == IF includes(g.dir, "w") THEN RNeg(dx_local)
            ELSE IF includes(g.dir, "e") THEN dx_local ELSE Zero
      dh == IF includes(g.dir, "n") THEN RNeg(dy_local)
            ELSE IF includes(g.dir, "s") THEN dy_local ELSE Zero
      newW == resizedSize(g.startW, dw)
      newH == resizedSize(g.startH, dh)
      actual_dw == RSub(newW, g.startW)
      actual_dh == RSub(newH, g.startH)
      dcx_local == IF includes(g.dir, "w") THEN RNeg(Half(actual_dw))
                   ELSE IF includes(g.dir, "e") THEN Half(actual_dw) ELSE Zero
      dcy_local == IF includes(g.dir, "n") THEN RNeg(Half(actual_dh))
                   ELSE IF includes(g.dir, "s") THEN Half(actual_dh) ELSE Zero
      dcx == RSub(RMul(dcx_local, cosR), RMul(dcy_local, sinR))
      dcy == RAdd(RMul(dcx_local, sinR), RMul(dcy_local, cosR))
      nx == RSub(RAdd(g.initialCx, dcx), Half(newW))
      ny == RSub(RAdd(g.initialCy, dcy), Half(newH))
  IN  [width |-> mathRound(newW),
       height |-> mathRound(newH),
       x |-> mathRound(clampCenter(nx, newW, cw)),
       y |-> mathRound(clampCenter(ny, newH, ch))]

\* ... of a box rendered in the widget
resizeOnMove(g, dpx, dpy) ==
  resizeOnMoveIn(g, dpx, dpy, containerW, containerH)

\* Pointer positions relative to the pointer-down position, in screen pixels
PointerDeltas ==
  {<<5, 0>>, <<-3, 2>>, <<40, 40>>, <<-40, -40>>}
\* The scale prop: zoomed out and zoomed in
ScaleChoices == {Rat(1, 2), Num(2)}
\* The box the gestures start from
StartBox ==
  [x |-> Num(2), y |-> Num(3), width |-> Num(6), height |-> Num(4)]

MaxGestures == 2

NoGesture == [kind |-> "none"]
NoPatch == [kind |-> "none"]

\* No gesture has been made
BoxIdle ==
  /\ boxEl = StartBox @@ [rotation |-> 0]
  /\ scale = One
  /\ gesture = NoGesture
  /\ emitted = NoPatch
  /\ gestures = 0

\* handleDragDown: pointer down on the box (not locked, not drawing)
DragDown ==
  /\ gesture.kind = "none"
  /\ gestures < MaxGestures
  /\ gesture' = [kind |-> "move", el |-> boxEl, scale |-> scale,
                 startElX |-> boxEl.x, startElY |-> boxEl.y]
  /\ gestures' = gestures + 1
  /\ UNCHANGED <<boxEl, scale, emitted, interpVars, designerVars, clockVars,
                 surfaceVars,
                 treeVars, widgetVars>>

\* handleResizeDown(e, dir): pointer down on one of the eight handles
ResizeDown ==
  \E dir \in Handles :
    /\ gesture.kind = "none"
    /\ gestures < MaxGestures
    /\ LET startW == mathMax(Zero, boxEl.width)
           startH == mathMax(Zero, boxEl.height)
       IN  gesture' = [kind |-> "resize", dir |-> dir, scale |-> scale,
                       startW |-> startW, startH |-> startH,
                       startElX |-> boxEl.x, startElY |-> boxEl.y,
                       rot |-> boxEl.rotation,
                       initialCx |-> RAdd(boxEl.x, Half(startW)),
                       initialCy |-> RAdd(boxEl.y, Half(startH))]
    /\ gestures' = gestures + 1
    /\ UNCHANGED <<boxEl, scale, emitted, interpVars, designerVars, clockVars,
                 surfaceVars,
                   treeVars, widgetVars>>

\* The pointermove listener of the gesture in flight.  onUpdate is updateEl:
\* the patch is merged into the element, which is rendered as the new el
\* prop; the listener keeps what it captured at pointer down.
PointerMove ==
  \E d \in PointerDeltas :
    /\ gesture.kind # "none"
    /\ LET patch == IF gesture.kind = "move"
                    THEN dragOnMove(gesture, d[1], d[2])
                    ELSE resizeOnMove(gesture, d[1], d[2])
       IN  emitted' = [kind |-> gesture.kind, patch |-> patch]
    /\ boxEl' = [p \in DOMAIN boxEl |->
                   IF p \in DOMAIN emitted'.patch THEN emitted'.patch[p]
                   ELSE boxEl[p]]
    /\ UNCHANGED <<scale, gesture, gestures, interpVars, designerVars,
                   clockVars, surfaceVars,
                   treeVars, widgetVars>>

\* The pointerup listener: both listeners are removed
PointerUp ==
  /\ gesture.kind # "none"
  /\ gesture' = NoGesture
  /\ UNCHANGED <<boxEl, scale, emitted, gestures, interpVars, designerVars,
                 clockVars, surfaceVars,
                 treeVars, widgetVars>>

\* ------------------------------------------------------------------------
\* The canvas as an interaction surface: the group g1 and its child e1,
\* each in a TransformBox, the resize handles and the rotation handle of
\* the selected element, and the listeners the gestures register.
\* ------------------------------------------------------------------------
\* The boxes a pointer-down event passes, from its target outwards.
boxChain(id) == IF id = "e1" THEN <<"e1", "g1">> ELSE <<"g1">>

\* The containerW and containerH props of a box: the widget's size, and for
\* a child the size of its group (a whole number: sizes start whole and the
\* resize gesture rounds them).
containerOf(surf, id) ==
  IF id = "e1" THEN <<surf["g1"].width[1], surf["g1"].height[1]>>
  ELSE <<containerW, containerH>>

\* const isDrawing = activeTool !== 'select'
isDrawing == activeTool # "select"

\* Fault of dragRejected: the locked flag is not looked at
dragRejected_IgnoringLock(el, drawing) == drawing

\* if (el.locked || isDrawing) return
dragRejected(el, drawing) == el.locked \/ drawing

\* addEventListener for the move and the up listener of one gesture
register(ls, g, moveEvent, upEvent) ==
  ls \o <<[event |-> moveEvent, g |-> g], [event |-> upEvent, g |-> g]>>

\* What handleDragDown's listeners capture; n tells the closures of
\* different calls apart.
dragClosure(surf, id, n) ==
  [n |-> n, kind |-> "move", id |-> id, el |-> surf[id], scale |-> scale,
   startElX |-> surf[id].x, startElY |-> surf[id].y,
   container |-> containerOf(surf, id)]

\* handleDragDown
handleDragDown(ls, surf, id, n) ==
  IF dragRejected(surf[id], isDrawing) THEN ls
  ELSE register(ls, dragClosure(surf, id, n), "pointermove", "pointerup")

\* The onSelect prop of a TransformBox calls e.stopPropagation() unless the
\* curvature or the pencil tool is active.
onSelectStops == activeTool \notin {"curvature", "pencil"}

\* onPointerDown of the boxes from chain[i] outwards: onSelect, then
\* handleDragDown, then the next box unless propagation was stopped.
RECURSIVE bubble(_, _, _, _, _)
bubble(chain, i, ls, sel, n) ==
  IF i > Len(chain) THEN [listeners |-> ls, selectedId |-> sel]
  ELSE LET id == chain[i]
           sel2 == IF onSelectStops THEN id ELSE sel
           ls2 == handleDragDown(ls, surface, id, <<n, i>>)
       IN  IF onSelectStops THEN [listeners |-> ls2, selectedId |-> sel2]
           ELSE bubble(chain, i + 1, ls2, sel2, n)

\* What handleResizeDown's listeners capture.
resizeClosure(surf, id, dir, n) ==
  LET el == surf[id]
      startW == mathMax(Zero, el.width)
      startH == mathMax(Zero, el.height)
  IN  [n |-> n, kind |-> "resize", id |-> id, dir |-> dir, scale |-> scale,
       startW |-> startW, startH |-> startH,
       startElX |-> el.x, startElY |-> el.y, rot |-> el.rotation,
       initialCx |-> RAdd(el.x, Half(startW)),
       initialCy |-> RAdd(el.y, Half(startH)),
       container |-> containerOf(surf, id)]

\* Fault of handleResizeDown: e.stopPropagation() is missing
handleResizeDown_Propagating(ls, surf, id, dir, n) ==
  [stopped |-> FALSE,
   listeners |-> IF dragRejected(surf[id], isDrawing) THEN ls
                 ELSE register(ls, resizeClosure(surf, id, dir, n),
                               "pointermove", "pointerup")]

\* handleResizeDown: e.stopPropagation(), the guard, the two listeners
handleResizeDown(ls, surf, id, dir, n) ==
  [stopped |-> TRUE,
   listeners |-> IF dragRejected(surf[id], isDrawing) THEN ls
                 ELSE register(ls, resizeClosure(surf, id, dir, n),
                               "pointermove", "pointerup")]

\* The handles of the selected element are rendered:
\* isSelected && !el.locked && !isDrawing
handlesRendered ==
  /\ selectedId \in DOMAIN surface
  /\ ~surface[selectedId].locked
  /\ ~isDrawing

\* Math.atan2(dx, -dy) * (180 / Math.PI) for a pointer straight above, to
\* the right of and straight below the element's center
RotateVectors == {<<0, -1>>, <<1, 0>>, <<0, 1>>}
angleOf(v) ==
  CASE v = <<0, -1>> -> 0
    [] v = <<1, 0>> -> 90
    [] v = <<0, 1>> -> 180

\* Pointer positions relative to the press, in screen pixels
SurfaceDeltas == {<<5, 0>>, <<-3, 2>>}

\* The patch a move listener passes to onUpdate
patchOf(g, d, v) ==
  CASE g.kind = "move" ->
         dragOnMoveIn(g, d[1], d[2], g.container[1], g.container[2])
    [] g.kind = "resize" ->
         resizeOnMoveIn(g, d[1], d[2], g.container[1], g.container[2])
    [] g.kind = "rotate" -> [rotation |-> angleOf(v)]

\* updateEl(id, patch) on the rendered elements
patched(surf, id, patch) ==
  [surf EXCEPT ![id] = [p \in DOMAIN surf[id] |->
                          IF p \in DOMAIN patch THEN patch[p] ELSE surf[id][p]]]

\* A pointer move: every registered pointermove and mousemove listener runs.
RECURSIVE dispatchMove(_, _, _, _, _)
dispatchMove(ls, i, surf, d, v) ==
  IF i > Len(ls) THEN surf
  ELSE IF ls[i].event \in {"pointermove", "mousemove"}
       THEN dispatchMove(ls, i + 1,
                         patched(surf, ls[i].g.id, patchOf(ls[i].g, d, v)),
                         d, v)
       ELSE dispatchMove(ls, i + 1, surf, d, v)

\* onUp: removeEventListener for the gesture's move and up listeners
onUp(ls, g) == SelectSeq(ls, LAMBDA l : l.g # g)

\* A release: every pointerup and mouseup listener registered at that time
\* runs.
RECURSIVE dispatchUp(_, _, _)
dispatchUp(fired, i, ls) ==
  IF i > Len(fired) THEN ls
  ELSE IF fired[i].event \in {"pointerup", "mouseup"}
       THEN dispatchUp(fired, i + 1, onUp(ls, fired[i].g))
       ELSE dispatchUp(fired, i + 1, ls)

\* selectedPath[selectedPath.length - 1] ?? null of an empty path
NoElement == "null"

\* The drawing tools of the toolbar (the eraser, which deletes the element
\* it is pressed on, is not modelled)
DrawingTools == {"curvature", "pencil"}
MaxPresses == 2

StartSurface ==
  [id \in {"g1", "e1"} |->
     IF id = "g1"
     THEN [x |-> Num(2), y |-> Num(1), width |-> Num(14), height |-> Num(9),
           rotation |-> 0, locked |-> FALSE]
     ELSE [x |-> Num(3), y |-> Num(2), width |-> Num(6), height |-> Num(4),
           rotation |-> 0, locked |-> FALSE]]

\* Nothing is selected, no button is down, no listener is registered
SurfaceIdle ==
  /\ surface = StartSurface
  /\ selectedId = NoElement
  /\ activeTool = "select"
  /\ listeners = <<>>
  /\ pressed = FALSE
  /\ presses = 0

\* Pointer down on the box of id.  The children of a selected group take no
\* pointer events (pointerEvents: 'none' on the selected box's content).
PressBox ==
  \E id \in DOMAIN surface :
    /\ ~pressed
    /\ presses < MaxPresses
    /\ ~(id = "e1" /\ selectedId = "g1")
    /\ LET r == bubble(boxChain(id), 1, listeners, selectedId, presses)
       IN  /\ listeners' = r.listeners
           /\ selectedId' = r.selectedId
    /\ pressed' = TRUE
    /\ presses' = presses + 1
    /\ UNCHANGED <<surface, activeTool, interpVars, designerVars, clockVars,
                   boxVars,
                   treeVars, widgetVars>>

\* Pointer down on one of the eight resize handles of the selected element
PressHandle ==
  \E dir \in Handles :
    /\ ~pressed
    /\ presses < MaxPresses
    /\ handlesRendered
    /\ LET r == handleResizeDown(listeners, surface, selectedId, dir,
                                 <<presses, 0>>)
           b == bubble(boxChain(selectedId), 1, r.listeners, selectedId,
                       presses)
       IN  IF r.stopped
           THEN listeners' = r.listeners /\ selectedId' = selectedId
           ELSE listeners' = b.listeners /\ selectedId' = b.selectedId
    /\ pressed' = TRUE
    /\ presses' = presses + 1
    /\ UNCHANGED <<surface, activeTool, interpVars, designerVars, clockVars,
                   boxVars,
                   treeVars, widgetVars>>

\* Mouse down on the rotation handle of the selected element, which is
\* rendered outside the boxes: e.stopPropagation(), the two listeners on
\* document
PressRotate ==
  /\ ~pressed
  /\ presses < MaxPresses
  /\ handlesRendered
  /\ listeners' = register(listeners,
                           [n |-> <<presses, 0>>, kind |-> "rotate",
                            id |-> selectedId],
                           "mousemove", "mouseup")
  /\ pressed' = TRUE
  /\ presses' = presses + 1
  /\ UNCHANGED <<surface, selectedId, activeTool, interpVars, designerVars,
                 clockVars, boxVars,
                 treeVars, widgetVars>>

\* The pointer moves
SurfaceMove ==
  \E d \in SurfaceDeltas, v \in RotateVectors :
    /\ surface' = dispatchMove(listeners, 1, surface, d, v)
    /\ UNCHANGED <<selectedId, activeTool, listeners, pressed, presses,
                   interpVars, designerVars, clockVars, boxVars,
                   treeVars, widgetVars>>

\* The button is released
Release ==
  /\ pressed
  /\ listeners' = dispatchUp(listeners, 1, listeners)
  /\ pressed' = FALSE
  /\ UNCHANGED <<surface, selectedId, activeTool, presses, interpVars,
                 designerVars, clockVars, boxVars,
                 treeVars, widgetVars>>

\* The lock button of the layers panel and of the properties panel
ToggleLock ==
  \E id \in DOMAIN surface :
    /\ ~pressed
    /\ surface' = [surface EXCEPT ![id].locked = ~surface[id].locked]
    /\ UNCHANGED <<selectedId, activeTool, listeners, pressed, presses,
                   interpVars, designerVars, clockVars, boxVars,
                   treeVars, widgetVars>>

\* A tool button of the toolbar: setActiveTool(t => t === tool ? 'select' :
\* tool)
ChooseTool ==
  \E t \in DrawingTools :
    /\ ~pressed
    /\ activeTool' = IF activeTool = t THEN "select" ELSE t
    /\ UNCHANGED <<surface, selectedId, listeners, pressed, presses,
                   interpVars, designerVars, clockVars, boxVars,
                   treeVars, widgetVars>>

\* ------------------------------------------------------------------------
\* The element tree of the active widget: layers, groups and the clipboard.
\* A node is [id, group, zIndex, children]; group says that the element is
\* a group or a mask, the elements that have a children array.
\* ------------------------------------------------------------------------
\* findElement(elements, id): the first match, parents before children, as
\* a sequence of no or one node
RECURSIVE findElement(_, _)
findElement(nodes, id) ==
  IF nodes = <<>> THEN <<>>
  ELSE IF nodes[1].id = id THEN <<nodes[1]>>
  ELSE LET f == findElement(nodes[1].children, id)
       IN  IF f # <<>> THEN f ELSE findElement(Tail(nodes), id)

\* removeFromElements(elements, id)
RECURSIVE removeFromElements(_, _)
removeFromElements(nodes, id) ==
  LET kept == SelectSeq(nodes, LAMBDA n : n.id # id)
  IN  [i \in DOMAIN kept |->
         [kept[i] EXCEPT !.children = removeFromElements(@, id)]]

\* patchElements(elements, id, { children }): a match is not searched
\* further
RECURSIVE patchChildren(_, _, _)
patchChildren(nodes, id, kids) ==
  [i \in DOMAIN nodes |->
     IF nodes[i].id = id THEN [nodes[i] EXCEPT !.children = kids]
     ELSE [nodes[i] EXCEPT !.children = patchChildren(@, id, kids)]]

\* addEl(el): el.zIndex = elements.length; [...elements, el]
addEl(nodes, el) == nodes \o <<[el EXCEPT !.zIndex = Len(nodes)]>>

\* deepCloneElement(el) with the ids uuidv4() hands out from next on: the
\* clone and the next unused id
RECURSIVE deepCloneElement(_, _)
RECURSIVE cloneChildren(_, _)
deepCloneElement(el, next) ==
  LET kids == cloneChildren(el.children, next + 1)
  IN  [el |-> [el EXCEPT !.id = next, !.children = kids.els],
       next |-> kids.next]
cloneChildren(els, next) ==
  IF els = <<>> THEN [els |-> <<>>, next |-> next]
  ELSE LET h == deepCloneElement(els[1], next)
           t == cloneChildren(Tail(els), h.next)
       IN  [els |-> <<h.el>> \o t.els, next |-> t.next]

\* { ...el, id: uuidv4(), ... } of the properties panel's onDuplicate
shallowCopy(el, next) == [el EXCEPT !.id = next]

\* [...nodes].sort((a, b) => b.zIndex - a.zIndex): stable, descending
RECURSIVE insertByZ(_, _)
insertByZ(sorted, n) ==
  IF sorted = <<>> THEN <<n>>
  ELSE IF sorted[1].zIndex >= n.zIndex
       THEN <<sorted[1]>> \o insertByZ(Tail(sorted), n)
       ELSE <<n>> \o sorted
RECURSIVE sortByZ(_)
sortByZ(nodes) ==
  IF nodes = <<>> THEN <<>>
  ELSE insertByZ(sortByZ(SubSeq(nodes, 1, Len(nodes) - 1)), nodes[Len(nodes)])

\* sortTree of moveLayer
RECURSIVE sortTree(_)
sortTree(nodes) ==
  LET s == sortByZ(nodes)
  IN  [i \in DOMAIN s |-> [s[i] EXCEPT !.children = sortTree(@)]]

Positions == {"before", "after", "inside"}

\* nodes.findIndex(n => n.id === targetId), 0 for -1
findIndex(nodes, targetId) ==
  IF \E i \in DOMAIN nodes : nodes[i].id = targetId
  THEN CHOOSE i \in DOMAIN nodes :
         /\ nodes[i].id = targetId
         /\ \A j \in 1..(i - 1) : nodes[j].id # targetId
  ELSE 0

\* insert of moveLayer: [changed, nodes]
RECURSIVE insert(_, _, _, _)
insert(nodes, targetId, position, draggedEl) ==
  LET idx == findIndex(nodes, targetId)
  IN  IF idx # 0
      THEN IF position = "inside" /\ nodes[idx].group
           THEN [changed |-> TRUE,
                 nodes |-> [nodes EXCEPT ![idx].children = @ \o <<draggedEl>>]]
           ELSE LET at == IF position = "before" THEN idx - 1 ELSE idx
                IN  [changed |-> TRUE,
                     nodes |-> SubSeq(nodes, 1, at) \o <<draggedEl>>
                                 \o SubSeq(nodes, at + 1, Len(nodes))]
      ELSE LET r(i) == insert(nodes[i].children, targetId, position, draggedEl)
               hit(i) == nodes[i].group /\ r(i).changed
           IN  [changed |-> \E i \in DOMAIN nodes : hit(i),
                nodes |-> [i \in DOMAIN nodes |->
                             IF hit(i)
                             THEN [nodes[i] EXCEPT !.children = r(i).nodes]
                             ELSE nodes[i]]]

\* fixZ of moveLayer: the first of n nodes gets zIndex n - 1
RECURSIVE fixZ(_)
fixZ(nodes) ==
  [i \in DOMAIN nodes |->
     [nodes[i] EXCEPT !.zIndex = Len(nodes) - i, !.children = fixZ(@)]]

\* draggedEl is a group or mask with targetId among its descendants
isDescendant(draggedEl, targetId) ==
  draggedEl.group /\ findElement(draggedEl.children, targetId) # <<>>

\* Fault of moveLayer: no guard, and the dragged element is not taken out
\* before it is inserted
moveLayer_InsertOnly(nodes, draggedId, targetId, position) ==
  LET f == findElement(nodes, draggedId)
      res == insert(sortTree(nodes), targetId, position, f[1])
  IN  IF ~res.changed THEN nodes ELSE fixZ(res.nodes)

\* moveLayer(draggedId, targetId, position): the elements it leaves
moveLayer(nodes, draggedId, targetId, position) ==
  IF draggedId = targetId THEN nodes
  ELSE LET f == findElement(nodes, draggedId)
       IN  IF f = <<>> THEN nodes
           ELSE IF isDescendant(f[1], targetId) THEN nodes
           ELSE LET withoutDragged ==
                      removeFromElements(sortTree(nodes), draggedId)
                    res == insert(withoutDragged, targetId, position, f[1])
                IN  IF ~res.changed THEN nodes ELSE fixZ(res.nodes)

\* removeFromGroup(elId, groupId): the elements it leaves (the moved
\* element's x and y are not modelled)
removeFromGroup(nodes, elId, groupId) ==
  LET group == findElement(nodes, groupId)
  IN  IF group = <<>> THEN nodes
      ELSE LET kids == group[1].children
               found == SelectSeq(kids, LAMBDA c : c.id = elId)
           IN  IF found = <<>> THEN nodes
               ELSE patchChildren(nodes, groupId,
                                  SelectSeq(kids, LAMBDA c : c.id # elId))
                      \o <<found[1]>>

\* The ids of the elements of the tree, at every depth
RECURSIVE idsOf(_)
idsOf(nodes) ==
  IF nodes = <<>> THEN {}
  ELSE {nodes[1].id} \cup idsOf(nodes[1].children) \cup idsOf(Tail(nodes))

\* const selected = selectedId ? findElement(elements, selectedId) : null
selected == IF treeSelected = 0 THEN <<>> ELSE findElement(tree, treeSelected)

MaxTreeOps == 2

\* A loaded workspace: group 1 holding group 2 holding shape 3, and shape 4
LoadedTree ==
  << [id |-> 1, group |-> TRUE, zIndex |-> 0, children |->
        << [id |-> 2, group |-> TRUE, zIndex |-> 0, children |->
              << [id |-> 3, group |-> FALSE, zIndex |-> 0,
                  children |-> <<>>] >>] >>],
     [id |-> 4, group |-> FALSE, zIndex |-> 1, children |-> <<>>] >>

\* No layer operation has been made
TreeIdle ==
  /\ tree = LoadedTree
  /\ treeSelected = 0
  /\ clipboard = <<>>
  /\ treeNextId = 5
  /\ treeOps = 0

\* A toolbar button: addEl(newElement(...)), addEl(newGroup()),
\* addEl(newMask(...))
AddElement ==
  \E g \in BOOLEAN :
    /\ treeOps < MaxTreeOps
    /\ tree' = addEl(tree, [id |-> treeNextId, group |-> g, zIndex |-> 0,
                            children |-> <<>>])
    /\ treeSelected' = treeNextId
    /\ treeNextId' = treeNextId + 1
    /\ treeOps' = treeOps + 1
    /\ UNCHANGED <<clipboard, interpVars, designerVars, clockVars, boxVars,
                   surfaceVars, widgetVars>>

\* Ctrl+D: addEl(deepCloneElement(selected))
DuplicateByShortcut ==
  /\ treeOps < MaxTreeOps
  /\ selected # <<>>
  /\ LET c == deepCloneElement(selected[1], treeNextId)
     IN  /\ tree' = addEl(tree, c.el)
         /\ treeSelected' = c.el.id
         /\ treeNextId' = c.next
  /\ treeOps' = treeOps + 1
  /\ UNCHANGED <<clipboard, interpVars, designerVars, clockVars, boxVars,
                 surfaceVars, widgetVars>>

\* The properties panel's duplicate button: onDuplicate(selected.id)
DuplicateByButton ==
  /\ treeOps < MaxTreeOps
  /\ selected # <<>>
  /\ tree' = addEl(tree, shallowCopy(selected[1], treeNextId))
  /\ treeSelected' = treeNextId
  /\ treeNextId' = treeNextId + 1
  /\ treeOps' = treeOps + 1
  /\ UNCHANGED <<clipboard, interpVars, designerVars, clockVars, boxVars,
                 surfaceVars, widgetVars>>

\* Ctrl+C: setClipboard(selected)
Copy ==
  /\ selected # <<>>
  /\ clipboard' = selected
  /\ UNCHANGED <<tree, treeSelected, treeNextId, treeOps, interpVars,
                 designerVars, clockVars, boxVars, surfaceVars, widgetVars>>

\* Ctrl+V: addEl(deepCloneElement(clipboard))
Paste ==
  /\ treeOps < MaxTreeOps
  /\ clipboard # <<>>
  /\ LET c == deepCloneElement(clipboard[1], treeNextId)
     IN  /\ tree' = addEl(tree, c.el)
         /\ treeSelected' = c.el.id
         /\ treeNextId' = c.next
  /\ treeOps' = treeOps + 1
  /\ UNCHANGED <<clipboard, interpVars, designerVars, clockVars, boxVars,
                 surfaceVars, widgetVars>>

\* Delete or Backspace: deleteEl(selectedId); setSelectedPath([])
DeleteSelected ==
  /\ treeOps < MaxTreeOps
  /\ treeSelected # 0
  /\ tree' = removeFromElements(tree, treeSelected)
  /\ treeSelected' = 0
  /\ treeOps' = treeOps + 1
  /\ UNCHANGED <<clipboard, treeNextId, interpVars, designerVars, clockVars,
                 boxVars, surfaceVars, widgetVars>>

\* The delete button of a layer row: onDelete(el.id)
DeleteLayer ==
  \E id \in idsOf(tree) :
    /\ treeOps < MaxTreeOps
    /\ tree' = removeFromElements(tree, id)
    /\ treeOps' = treeOps + 1
    /\ UNCHANGED <<treeSelected, clipboard, treeNextId, interpVars,
                   designerVars, clockVars, boxVars, surfaceVars, widgetVars>>

\* A layer row dropped on another: moveLayer(elId, target.id, position)
MoveLayer ==
  \E draggedId \in idsOf(tree), targetId \in idsOf(tree),
     position \in Positions :
    /\ treeOps < MaxTreeOps
    /\ tree' = moveLayer(tree, draggedId, targetId, position)
    /\ treeOps' = treeOps + 1
    /\ UNCHANGED <<treeSelected, clipboard, treeNextId, interpVars,
                   designerVars, clockVars, boxVars, surfaceVars, widgetVars>>

\* The remove-from-group button of a child's layer row
RemoveFromGroup ==
  \E groupId \in idsOf(tree), elId \in idsOf(tree) :
    /\ treeOps < MaxTreeOps
    /\ LET group == findElement(tree, groupId)
       IN  \E i \in DOMAIN group[1].children :
             group[1].children[i].id = elId
    /\ tree' = removeFromGroup(tree, elId, groupId)
    /\ treeOps' = treeOps + 1
    /\ UNCHANGED <<treeSelected, clipboard, treeNextId, interpVars,
                   designerVars, clockVars, boxVars, surfaceVars, widgetVars>>

\* A click on a layer row: onSelect(id)
SelectLayer ==
  \E id \in idsOf(tree) :
    /\ treeSelected' = id
    /\ UNCHANGED <<tree, clipboard, treeNextId, treeOps, interpVars,
                   designerVars, clockVars, boxVars, surfaceVars, widgetVars>>

\* ------------------------------------------------------------------------
\* Designer: element tree, timeline and keyframe management
\* ------------------------------------------------------------------------
\* useState<string|null>(null): no keyframe selected; ids start at 1.
Null == 0
\* 0.01 s, the distance under which addGlobalKeyframe replaces a keyframe
EPS == 4
\* Math.max(0.5, ...) of the duration input: 0.5 s
MinDuration == 200
\* defaultTimeline().duration: 5 s
DefaultDuration == 2000
\* defaultTimeline().speed: 1x, counted in quarters
DefaultSpeed == 4

Max(a, b) == IF a >= b THEN a ELSE b
Min(a, b) == IF a <= b THEN a ELSE b

\* Math.round(time * 100) / 100 for time >= 0: the nearest multiple of
\* 0.01 s, a half rounding up.
roundToCentis(time) == 4 * ((time + 2) \div 4)

\* { ...a, ...b }
merge(a, b) ==
  [p \in DOMAIN a \cup DOMAIN b |-> IF p \in DOMAIN b THEN b[p] ELSE a[p]]

\* flattenElements / the flatten closure of snapshotAllElements: every
\* element of the tree, parents before their children.
RECURSIVE flattenElements(_)
flattenElements(els) ==
  IF els = <<>> THEN <<>>
  ELSE <<els[1]>> \o flattenElements(els[1].children)
                  \o flattenElements(Tail(els))

\* patchElements(elements, id, up)
RECURSIVE patchElements(_, _, _)
patchElements(els, id, up) ==
  [i \in DOMAIN els |->
     IF els[i].id = id THEN [els[i] EXCEPT !.props = merge(@, up)]
     ELSE [els[i] EXCEPT !.children = patchElements(@, id, up)]]

\* The properties one snapshot entry records of an element state.
SnapshotAlways == {"x", "y", "width", "height", "rotation", "opacity"}
SnapshotOrOne == {"scaleX", "scaleY"}
SnapshotIfDefined == {"borderRadius"}
SnapshotIfTruthy == {"blur", "brightness", "fontSize"}

\* states[el.id] = { x: stateEl.x, ..., scaleX: stateEl.scaleX ?? 1, ... }.
\* The elements of the model carry a subset of the required geometry fields;
\* a field the element does not carry is left out.
snapshotEntry(props) ==
  LET keys == (DOMAIN props \cap (SnapshotAlways \cup SnapshotIfDefined))
                \cup SnapshotOrOne
                \cup {p \in DOMAIN props \cap SnapshotIfTruthy :
                        props[p] # Zero /\ IsFinite(props[p])}
  IN  [p \in keys |-> IF p \in DOMAIN props THEN props[p] ELSE One]

\* The state of one element at `time`: its base properties with the
\* interpolated overrides merged in when there are keyframes and overrides.
effectiveProps(el, time, kfs) ==
  IF Len(kfs) > 0
  THEN LET overrides == interpolateElementFromGlobal(kfs, el.id, el, time)
       IN  IF DOMAIN overrides # {} THEN merge(el.props, overrides)
           ELSE el.props
  ELSE el.props

snapshotAllElements(els, time, kfs) ==
  LET flat == flattenElements(els)
      ids == {flat[i].id : i \in DOMAIN flat}
      lastOf(id) == flat[CHOOSE i \in DOMAIN flat :
                           /\ flat[i].id = id
                           /\ \A j \in DOMAIN flat : flat[j].id = id => j <= i]
  IN  [id \in ids |-> snapshotEntry(effectiveProps(lastOf(id), time, kfs))]

\* Bound of the designer model: the number of operations of one session.
MaxEdits == 4
\* Times offered to add-keyframe, move-keyframe and the scrubber:
\* 0 s, 0.02 s, 0.0225 s, 0.06 s and 0.6 s: no two of them, and no
\* keyframe time they lead to, lie exactly 0.01 s apart or exactly half way
\* between two multiples of 0.01 s, where the outcome of a comparison or of
\* Math.round on doubles depends on the representation error.
TimeChoices == {0, 8, 9, 24, 240}
\* Values typed into the duration input: 0 s (raised to 0.5 s) and 1 s.
DurationChoices == {0, 400}
\* Easings offered by the keyframe info bar that the model exercises.
EasingChoices == {"linear", "ease-in"}
\* Edits of an element made on the canvas or in the properties panel.
PatchChoices ==
  { <<"e1", "x" :> Num(100)>>,
    <<"e1", "strokeWidth" :> Num(10)>>,
    <<"g1", "x" :> Num(50)>> }

\* A group holding one shape.
InitialElements ==
  << [id |-> "g1", props |-> ("x" :> Num(20)),
      children |-> << [id |-> "e1", props |-> ("x" :> Num(7)),
                       children |-> <<>>] >>] >>

InitDesigner ==
  /\ elements = InitialElements
  /\ duration = DefaultDuration
  /\ keyframes = <<>>
  /\ selectedKeyframeId = Null
  /\ currentTime = 0
  /\ nextId = 1
  /\ edits = 0
  /\ loop = FALSE
  /\ speed = DefaultSpeed
  /\ isPlaying = FALSE
  /\ isScrubbing = FALSE
  /\ sincePlayStart = 0
  /\ playTimeOffsetRef = 0
  /\ animFrameRef = FALSE
  /\ orphanFrames = 0
  /\ tickTimeline = [duration |-> duration, loop |-> loop, speed |-> speed]

\* One more operation of the session.
Edit == edits < MaxEdits /\ edits' = edits + 1

clampTime(t) == Max(0, Min(duration, t))

\* addGlobalKeyframe(time), followed by setSelectedKeyframeId(kf.id)
addGlobalKeyframe(time) ==
  LET kf == [id |-> nextId,
             time |-> roundToCentis(time),
             easing |-> "linear",
             elementStates |-> snapshotAllElements(elements, time, keyframes)]
      filtered == SelectSeq(keyframes, LAMBDA k : Abs(k.time - time) > EPS)
  IN  /\ nextId' = nextId + 1
      /\ keyframes' = Append(filtered, kf)
      /\ selectedKeyframeId' = kf.id

\* The K shortcut and the properties panel button: addGlobalKeyframe(currentTime)
AddKeyframeAtCurrentTime ==
  /\ addGlobalKeyframe(currentTime)
  /\ Edit
  /\ UNCHANGED <<elements, duration, currentTime, interpVars, clockVars, boxVars, surfaceVars,
                 treeVars, widgetVars>>

\* Double click on the scene track: setCurrentTime(time); addGlobalKeyframe(time)
AddKeyframeByDoubleClick ==
  \E c \in TimeChoices :
    LET time == clampTime(c)
    IN  /\ currentTime' = time
        /\ addGlobalKeyframe(time)
        /\ Edit
        /\ UNCHANGED <<elements, duration, interpVars, clockVars, boxVars, surfaceVars,
                       treeVars, widgetVars>>

deleteGlobalKeyframe(kfId) ==
  /\ keyframes' = SelectSeq(keyframes, LAMBDA k : k.id # kfId)
  /\ selectedKeyframeId' = IF selectedKeyframeId = kfId THEN Null
                           ELSE selectedKeyframeId

DeleteKeyframe ==
  \E i \in DOMAIN keyframes :
    /\ deleteGlobalKeyframe(keyframes[i].id)
    /\ Edit
    /\ UNCHANGED <<elements, duration, currentTime, nextId, interpVars, clockVars, boxVars, surfaceVars,
                   treeVars, widgetVars>>

updateGlobalKeyframeEasing(kfId, easing) ==
  keyframes' = [i \in DOMAIN keyframes |->
                  IF keyframes[i].id = kfId
                  THEN [keyframes[i] EXCEPT !.easing = easing]
                  ELSE keyframes[i]]

ChangeEasing ==
  \E i \in DOMAIN keyframes, easing \in EasingChoices :
    /\ updateGlobalKeyframeEasing(keyframes[i].id, easing)
    /\ Edit
    /\ UNCHANGED <<elements, duration, selectedKeyframeId, currentTime,
                   nextId, interpVars, clockVars, boxVars, surfaceVars,
                   treeVars, widgetVars>>

updateGlobalKeyframeTime(kfId, newTime) ==
  keyframes' = [i \in DOMAIN keyframes |->
                  IF keyframes[i].id = kfId
                  THEN [keyframes[i] EXCEPT !.time = Max(0, Min(duration, newTime))]
                  ELSE keyframes[i]]

\* The Time input of the selected keyframe's info bar
MoveKeyframeByInput ==
  \E i \in DOMAIN keyframes, newTime \in TimeChoices :
    /\ keyframes[i].id = selectedKeyframeId
    /\ updateGlobalKeyframeTime(keyframes[i].id, newTime)
    /\ Edit
    /\ UNCHANGED <<elements, duration, selectedKeyframeId, currentTime,
                   nextId, interpVars, clockVars, boxVars, surfaceVars,
                   treeVars, widgetVars>>

\* Mouse down on a keyframe diamond: select it and move the playhead to it
SelectKeyframe ==
  \E i \in DOMAIN keyframes :
    /\ selectedKeyframeId' = keyframes[i].id
    /\ currentTime' = keyframes[i].time
    /\ Edit
    /\ UNCHANGED <<elements, duration, keyframes, nextId, interpVars, clockVars, boxVars, surfaceVars,
                   treeVars, widgetVars>>

\* Dragging the diamond that was pressed: the time is clamped, rounded to
\* 0.01 s and also becomes the query time
MoveKeyframeByDrag ==
  \E i \in DOMAIN keyframes, c \in TimeChoices :
    LET newTime == roundToCentis(clampTime(c))
    IN  /\ keyframes[i].id = selectedKeyframeId
        /\ updateGlobalKeyframeTime(keyframes[i].id, newTime)
        /\ currentTime' = newTime
        /\ Edit
        /\ UNCHANGED <<elements, duration, selectedKeyframeId, nextId,
                       interpVars, clockVars, boxVars, surfaceVars,
                       treeVars, widgetVars>>

\* Click on the empty canvas: setSelectedKeyframeId(null)
DeselectKeyframe ==
  /\ selectedKeyframeId # Null
  /\ selectedKeyframeId' = Null
  /\ Edit
  /\ UNCHANGED <<elements, duration, keyframes, currentTime, nextId,
                 interpVars, clockVars, boxVars, surfaceVars,
                 treeVars, widgetVars>>

\* The duration input: setTimelineProp({ duration: Math.max(0.5, value) })
ChangeDuration ==
  \E v \in DurationChoices :
    /\ duration' = Max(MinDuration, v)
    /\ Edit
    /\ UNCHANGED <<elements, keyframes, selectedKeyframeId, currentTime,
                   nextId, interpVars, clockVars, boxVars, surfaceVars,
                   treeVars, widgetVars>>

\* A whole scrub gesture on the time ruler (mouse down, moves, mouse up)
\* with nothing happening in between: setCurrentTime(clamped time), and
\* isScrubbing set and cleared again
Scrub ==
  \E c \in TimeChoices :
    /\ currentTime' = clampTime(c)
    /\ Edit
    /\ UNCHANGED <<elements, duration, keyframes, selectedKeyframeId,
                   nextId, interpVars, clockVars, boxVars, surfaceVars,
                   treeVars, widgetVars>>

\* The one widget of newWorkspace() is active
WidgetIdle ==
  /\ activeWidgetId = 1
  /\ inactiveWidgets = <<>>

\* The active widget as workspace.widgets holds it
activeWidget ==
  [id |-> activeWidgetId, elements |-> elements, duration |-> duration,
   keyframes |-> keyframes, loop |-> loop, speed |-> speed]

\* setActiveWidgetId(w.id): activeWidget and timeline are now those of w
activate(w) ==
  /\ activeWidgetId' = w.id
  /\ elements' = w.elements
  /\ duration' = w.duration
  /\ keyframes' = w.keyframes
  /\ loop' = w.loop
  /\ speed' = w.speed

\* addWidget(type): a widget without elements and without a timeline is
\* appended and becomes the active one.  The model holds up to two widgets.
AddWidget ==
  /\ inactiveWidgets = <<>>
  /\ inactiveWidgets' = <<activeWidget>>
  /\ activate([id |-> activeWidgetId + 1, elements |-> <<>>,
               duration |-> DefaultDuration, keyframes |-> <<>>,
               loop |-> FALSE, speed |-> DefaultSpeed])
  /\ Edit
  /\ UNCHANGED <<selectedKeyframeId, currentTime, nextId, isPlaying,
                 isScrubbing, sincePlayStart, playTimeOffsetRef,
                 animFrameRef, orphanFrames, tickTimeline, interpVars, boxVars,
                 surfaceVars, treeVars>>

\* A widget tab of the widget bar: setActiveWidgetId(w.id);
\* setSelectedPath([])
SwitchWidget ==
  /\ inactiveWidgets # <<>>
  /\ inactiveWidgets' = <<activeWidget>>
  /\ activate(inactiveWidgets[1])
  /\ Edit
  /\ UNCHANGED <<selectedKeyframeId, currentTime, nextId, isPlaying,
                 isScrubbing, sincePlayStart, playTimeOffsetRef,
                 animFrameRef, orphanFrames, tickTimeline, interpVars, boxVars,
                 surfaceVars, treeVars>>

\* A saved workspace: the workspace as it was constructed
SavedWidget ==
  [id |-> 1, elements |-> InitialElements, duration |-> DefaultDuration,
   keyframes |-> <<>>, loop |-> FALSE, speed |-> DefaultSpeed]

\* The load modal and the file import: setWorkspace(data);
\* setActiveWidgetId(data.widgets[0].id)
LoadWorkspace ==
  /\ inactiveWidgets' = <<>>
  /\ activate(SavedWidget)
  /\ Edit
  /\ UNCHANGED <<selectedKeyframeId, currentTime, nextId, isPlaying,
                 isScrubbing, sincePlayStart, playTimeOffsetRef,
                 animFrameRef, orphanFrames, tickTimeline, interpVars, boxVars,
                 surfaceVars, treeVars>>

\* Fault of updateEl: the patch always goes into the base element.
updateEl_AlwaysBase(id, up) ==
  /\ elements' = patchElements(elements, id, up)
  /\ UNCHANGED keyframes

\* updateEl(id, up): into the selected keyframe's snapshot when a keyframe
\* is selected, into the base element otherwise
updateEl(id, up) ==
  IF selectedKeyframeId # Null
  THEN /\ keyframes' =
            [i \in DOMAIN keyframes |->
               IF keyframes[i].id = selectedKeyframeId
               THEN [keyframes[i] EXCEPT !.elementStates =
                       merge(@, id :> merge(getState(keyframes[i], id), up))]
               ELSE keyframes[i]]
       /\ UNCHANGED elements
  ELSE /\ elements' = patchElements(elements, id, up)
       /\ UNCHANGED keyframes

UpdateElement ==
  \E patch \in PatchChoices :
    /\ updateEl(patch[1], patch[2])
    /\ Edit
    /\ UNCHANGED <<duration, selectedKeyframeId, currentTime, nextId,
                   interpVars, clockVars, boxVars, surfaceVars,
                   treeVars, widgetVars>>

InterpIdle ==
  /\ argKeyframes = <<>>
  /\ argEl = [id |-> "e1", props |-> EmptyState]
  /\ argTime = 0
  /\ result = Pending
  /\ CallIdle

InitTimeline == InitDesigner /\ InterpIdle /\ BoxIdle /\ SurfaceIdle /\ TreeIdle
    /\ WidgetIdle

NextTimeline ==
  \/ AddKeyframeAtCurrentTime
  \/ AddKeyframeByDoubleClick
  \/ DeleteKeyframe
  \/ ChangeEasing
  \/ MoveKeyframeByInput
  \/ SelectKeyframe
  \/ MoveKeyframeByDrag
  \/ DeselectKeyframe
  \/ ChangeDuration
  \/ Scrub
  \/ UpdateElement

SpecTimeline == InitTimeline /\ [][NextTimeline]_vars

\* Keyframe selection in a workspace of several widgets
NextWidgets ==
  \/ AddKeyframeAtCurrentTime
  \/ AddKeyframeByDoubleClick
  \/ DeleteKeyframe
  \/ SelectKeyframe
  \/ DeselectKeyframe
  \/ UpdateElement
  \/ AddWidget
  \/ SwitchWidget
  \/ LoadWorkspace

SpecWidgets == InitTimeline /\ [][NextWidgets]_vars

\* ------------------------------------------------------------------------
\* Timeline playback clock
\* ------------------------------------------------------------------------
\* Speeds of the select that the model exercises, in quarters: 0.5x, 1x, 2x.
SpeedChoices == {2, 4, 8}
\* Wall-clock time that passes before the next frame callback runs: 1.25 s
\* or 2.5 s (requestAnimationFrame gives no upper bound on the delay).
FrameSteps == {500, 1000}
\* Bound of the clock model: the wall-clock time followed after one play,
\* 10 s, which is the longest duration (5 s) at the slowest speed (0.5x).
MaxElapsed == 4000

\* tick: playTimeOffsetRef.current + elapsed, elapsed being the wall-clock
\* time since play times the captured speed.
tickRaw(offset, wall, tl) == offset + (wall * tl.speed) \div 4

\* Fault of tickTime: without looping the time is not clamped to duration.
tickTime_NoClamp(raw, tl) ==
  IF raw >= tl.duration /\ tl.loop THEN raw % tl.duration ELSE raw

\* tick: the query time it sets.
tickTime(raw, tl) ==
  IF raw >= tl.duration
  THEN IF tl.loop THEN raw % tl.duration ELSE tl.duration
  ELSE raw

\* Fault of tickStops: the end of the timeline stops a looping playback too.
tickStops_IgnoringLoop(raw, tl) == raw >= tl.duration

\* tick: whether it calls setIsPlaying(false).
tickStops(raw, tl) == raw >= tl.duration /\ ~tl.loop

\* tick: whether it requests another animation frame.
tickReschedules(t, tl) == t < tl.duration \/ tl.loop

\* animFrameRef.current = requestAnimationFrame(tick) outside a frame
\* callback: one more callback is scheduled, and a scheduled callback whose
\* handle the ref held until now is no longer referred to
requestAnimationFrame ==
  /\ animFrameRef' = TRUE
  /\ orphanFrames' = orphanFrames + (IF animFrameRef THEN 1 ELSE 0)

\* cancelAnimationFrame(animFrameRef.current)
cancelAnimationFrame ==
  /\ animFrameRef' = FALSE
  /\ UNCHANGED orphanFrames

\* Fault of playAnimation: playback restarts from 0, not from the query time.
playAnimation_FromZero ==
  /\ isPlaying' = TRUE
  /\ sincePlayStart' = 0
  /\ playTimeOffsetRef' = 0
  /\ tickTimeline' = [duration |-> duration, loop |-> loop, speed |-> speed]
  /\ requestAnimationFrame

\* Fault of stopAnimation: the scheduled frame callback is not cancelled.
stopAnimation_NoCancel ==
  /\ isPlaying' = FALSE
  /\ currentTime' = 0
  /\ UNCHANGED <<animFrameRef, orphanFrames>>

\* Fault of pauseAnimation: the scheduled frame callback is not cancelled.
pauseAnimation_NoCancel ==
  /\ isPlaying' = FALSE
  /\ UNCHANGED <<animFrameRef, orphanFrames>>

playAnimation ==
  /\ isPlaying' = TRUE
  /\ sincePlayStart' = 0
  /\ playTimeOffsetRef' = currentTime
  /\ tickTimeline' = [duration |-> duration, loop |-> loop, speed |-> speed]
  /\ requestAnimationFrame

pauseAnimation ==
  /\ isPlaying' = FALSE
  /\ cancelAnimationFrame

stopAnimation ==
  /\ isPlaying' = FALSE
  /\ currentTime' = 0
  /\ cancelAnimationFrame

\* The play/pause button while not playing
Play ==
  /\ ~isPlaying
  /\ playAnimation
  /\ UNCHANGED <<loop, speed, isScrubbing, elements, duration, keyframes,
                 selectedKeyframeId, currentTime, nextId, edits,
                 interpVars, boxVars, surfaceVars,
                 treeVars, widgetVars>>

\* The play/pause button while playing
Pause ==
  /\ isPlaying
  /\ pauseAnimation
  /\ UNCHANGED <<loop, speed, isScrubbing, sincePlayStart, playTimeOffsetRef,
                 tickTimeline, designerVars, interpVars, boxVars, surfaceVars,
                 treeVars, widgetVars>>

\* The stop button
Stop ==
  /\ stopAnimation
  /\ UNCHANGED <<loop, speed, isScrubbing, sincePlayStart, playTimeOffsetRef,
                 tickTimeline, elements, duration, keyframes,
                 selectedKeyframeId, nextId, edits, interpVars, boxVars, surfaceVars,
                 treeVars, widgetVars>>

\* The scheduled frame callbacks: the one animFrameRef refers to and the
\* others
scheduledFrames ==
  {f \in {"referred", "orphan"} :
     IF f = "referred" THEN animFrameRef ELSE orphanFrames > 0}

\* A scheduled frame callback runs: the one playAnimation or the previous
\* tick scheduled, or one whose handle has been overwritten.  A callback
\* that is running is no longer scheduled; when it requests another frame
\* the ref takes the new handle.
Tick ==
  /\ \E frame \in scheduledFrames, dt \in FrameSteps :
       /\ sincePlayStart + dt <= MaxElapsed
       /\ LET raw == tickRaw(playTimeOffsetRef, sincePlayStart + dt, tickTimeline)
              t == tickTime(raw, tickTimeline)
              others == IF frame = "orphan" THEN orphanFrames - 1
                        ELSE orphanFrames
          IN  /\ sincePlayStart' = sincePlayStart + dt
              /\ isPlaying' = IF tickStops(raw, tickTimeline) THEN FALSE
                              ELSE isPlaying
              /\ currentTime' = t
              /\ IF tickReschedules(t, tickTimeline)
                 THEN /\ animFrameRef' = TRUE
                      /\ orphanFrames' =
                           others + (IF frame = "orphan" /\ animFrameRef
                                     THEN 1 ELSE 0)
                 ELSE /\ animFrameRef' = (frame = "orphan" /\ animFrameRef)
                      /\ orphanFrames' = others
  /\ UNCHANGED <<loop, speed, isScrubbing, playTimeOffsetRef, tickTimeline,
                 elements, duration, keyframes, selectedKeyframeId, nextId,
                 edits, interpVars, boxVars, surfaceVars,
                 treeVars, widgetVars>>

\* The skip-to-end button: setCurrentTime(timeline.duration)
SkipToEnd ==
  /\ currentTime' = duration
  /\ Edit
  /\ UNCHANGED <<elements, duration, keyframes, selectedKeyframeId, nextId,
                 interpVars, clockVars, boxVars, surfaceVars,
                 treeVars, widgetVars>>

\* The loop button: setTimelineProp({ loop: !timeline.loop })
ToggleLoop ==
  /\ loop' = ~loop
  /\ Edit
  /\ UNCHANGED <<speed, isPlaying, isScrubbing, sincePlayStart, playTimeOffsetRef,
                 animFrameRef, orphanFrames, tickTimeline, elements, duration, keyframes,
                 selectedKeyframeId, currentTime, nextId, interpVars, boxVars, surfaceVars,
                 treeVars, widgetVars>>

\* The speed select: setTimelineProp({ speed: +e.target.value })
ChangeSpeed ==
  \E v \in SpeedChoices :
    /\ speed' = v
    /\ Edit
    /\ UNCHANGED <<loop, isPlaying, isScrubbing, sincePlayStart, playTimeOffsetRef,
                   animFrameRef, orphanFrames, tickTimeline, elements, duration, keyframes,
                   selectedKeyframeId, currentTime, nextId,
                   interpVars, boxVars, surfaceVars,
                   treeVars, widgetVars>>

\* The transport controls and the settings the tick reads.  The time ruler
\* only sets currentTime, which tick never reads (it computes the time from
\* playTimeOffsetRef), and is left to the timeline editing actions.
InitPlay == InitDesigner /\ InterpIdle /\ BoxIdle /\ SurfaceIdle /\ TreeIdle
    /\ WidgetIdle

NextPlay ==
  \/ Play
  \/ Pause
  \/ Stop
  \/ Tick
  \/ SkipToEnd
  \/ ToggleLoop
  \/ ChangeSpeed
  \/ ChangeDuration

\* Frame callbacks that stay scheduled are eventually run.
SpecPlay == InitPlay /\ [][NextPlay]_vars /\ WF_vars(Tick)

\* ------------------------------------------------------------------------
\* Scrubbing the time ruler during playback
\* ------------------------------------------------------------------------
\* scrub(ev): setCurrentTime of the pointer's time, clamped to the timeline
scrub(c) == currentTime' = clampTime(c)

\* Mouse down on the time ruler: setIsScrubbing(true); scrub(e.nativeEvent)
ScrubDown ==
  \E c \in TimeChoices :
    /\ ~isScrubbing
    /\ isScrubbing' = TRUE
    /\ scrub(c)
    /\ UNCHANGED <<loop, speed, isPlaying, sincePlayStart, playTimeOffsetRef,
                   animFrameRef, orphanFrames, tickTimeline, elements, duration, keyframes,
                   selectedKeyframeId, nextId, edits, interpVars, boxVars, surfaceVars,
                   treeVars, widgetVars>>

\* Mouse move while the button is held: onMove
ScrubMove ==
  \E c \in TimeChoices :
    /\ isScrubbing
    /\ scrub(c)
    /\ UNCHANGED <<loop, speed, isPlaying, isScrubbing, sincePlayStart,
                   playTimeOffsetRef, animFrameRef, orphanFrames, tickTimeline, elements,
                   duration, keyframes, selectedKeyframeId, nextId, edits,
                   interpVars, boxVars, surfaceVars,
                   treeVars, widgetVars>>

\* Mouse up: onUp, setIsScrubbing(false)
ScrubUp ==
  /\ isScrubbing
  /\ isScrubbing' = FALSE
  /\ UNCHANGED <<loop, speed, isPlaying, sincePlayStart, playTimeOffsetRef,
                 animFrameRef, orphanFrames, tickTimeline, designerVars, interpVars, boxVars, surfaceVars,
                 treeVars, widgetVars>>

InitScrub == InitDesigner /\ InterpIdle /\ BoxIdle /\ SurfaceIdle /\ TreeIdle
    /\ WidgetIdle

NextScrub ==
  \/ Play
  \/ Pause
  \/ Stop
  \/ Tick
  \/ ChangeSpeed
  \/ ScrubDown
  \/ ScrubMove
  \/ ScrubUp

SpecScrub == InitScrub /\ [][NextScrub]_vars /\ WF_vars(Tick)

\* ------------------------------------------------------------------------
\* Canvas gestures: a box at every rotation and zoom, moved and resized
\* ------------------------------------------------------------------------
InitTransform ==
  /\ InitDesigner
  /\ InterpIdle
  /\ \E rot \in Rotations : boxEl = StartBox @@ [rotation |-> rot]
  /\ scale \in ScaleChoices
  /\ gesture = NoGesture
  /\ emitted = NoPatch
  /\ gestures = 0
  /\ SurfaceIdle
  /\ TreeIdle
  /\ WidgetIdle

NextTransform ==
  \/ DragDown
  \/ ResizeDown
  \/ PointerMove
  \/ PointerUp

SpecTransform == InitTransform /\ [][NextTransform]_vars

\* ------------------------------------------------------------------------
\* Canvas interaction: presses, moves and releases on boxes and handles
\* ------------------------------------------------------------------------
InitSurface == InitDesigner /\ InterpIdle /\ BoxIdle /\ SurfaceIdle /\ TreeIdle
    /\ WidgetIdle

NextSurface ==
  \/ PressBox
  \/ PressHandle
  \/ PressRotate
  \/ SurfaceMove
  \/ Release
  \/ ToggleLock
  \/ ChooseTool

SpecSurface == InitSurface /\ [][NextSurface]_vars

\* ------------------------------------------------------------------------
\* Layer operations on a loaded workspace
\* ------------------------------------------------------------------------
InitTree == InitDesigner /\ InterpIdle /\ BoxIdle /\ SurfaceIdle /\ TreeIdle
    /\ WidgetIdle

NextTree ==
  \/ AddElement
  \/ DuplicateByShortcut
  \/ DuplicateByButton
  \/ Copy
  \/ Paste
  \/ DeleteSelected
  \/ DeleteLayer
  \/ MoveLayer
  \/ RemoveFromGroup
  \/ SelectLayer

SpecTree == InitTree /\ [][NextTree]_vars

\* ------------------------------------------------------------------------
\* Inputs of the interpolation engine
\* ------------------------------------------------------------------------
MaxKeyframes == 3

\* 0 s, 2 s and 3 s
KfTimes == {0, 800, 1200}
\* 0 s, 0.5 s, 1 s, 2 s, 2.5 s and 10 s
QueryTimes == {0, 200, 400, 800, 1000, 4000}

\* An easing with the snapshot (elementStates) a keyframe carries.
KfTemplates ==
  { [easing |-> "linear",   elementStates |-> "e1" :> ("x" :> Num(0))],
    [easing |-> "ease-in",  elementStates |-> "e1" :> ("x" :> Num(0))],
    [easing |-> "elastic",  elementStates |-> "e1" :> ("x" :> Num(100))],
    [easing |-> "ease-out", elementStates |-> "e1" :> ("opacity" :> Rat(1, 2))],
    [easing |-> "bounce",
     elementStates |-> "e1" :> ("x" :> Num(40) @@ "strokeWidth" :> Num(4))],
    [easing |-> "step-end", elementStates |-> "e2" :> ("x" :> Num(5))] }

KfInputs == KfTimes \X KfTemplates

\* The keyframe collection of a sequence of inputs, in its stored order,
\* ids by position.
asKeyframes(s) ==
  [i \in DOMAIN s |->
     [id |-> i, time |-> s[i][1], easing |-> s[i][2].easing,
      elementStates |-> s[i][2].elementStates]]

\* The base element: x and opacity set, strokeWidth undefined.
BaseElements ==
  { [id |-> "e1", props |-> ("x" :> Num(7) @@ "opacity" :> One)] }

InitInterp ==
  /\ \E n \in 0..MaxKeyframes :
       \E s \in [1..n -> KfInputs] : argKeyframes = asKeyframes(s)
  /\ argEl \in BaseElements
  /\ argTime \in QueryTimes
  /\ result = Pending
  /\ CallIdle
  /\ InitDesigner
  /\ BoxIdle
  /\ SurfaceIdle
  /\ TreeIdle
  /\ WidgetIdle

\* One call interpolateElementFromGlobal(argKeyframes, argEl.id, argEl, time)
call(time) ==
  /\ result' = Returned(interpolateElementFromGlobal(argKeyframes, argEl.id,
                                                      argEl, time))
  /\ returnedObject' = objectReturned(argKeyframes, argEl.id, time)
  /\ argKeyframes' = keyframesAfterCall(argKeyframes)
  /\ callLog' = Append(callLog,
                       [keyframes |-> argKeyframes, el |-> argEl,
                        time |-> time, overrides |-> result'.overrides])
  /\ UNCHANGED <<argEl, designerVars, clockVars, boxVars, surfaceVars,
                 treeVars, widgetVars>>

CallInterpolate ==
  /\ result = Pending
  /\ call(argTime)
  /\ UNCHANGED argTime

NextInterp == CallInterpolate

SpecInterp == InitInterp /\ [][NextInterp]_vars

\* The same call on collections of up to MaxTieKeyframes keyframes drawn from
\* fewer snapshots, so that several keyframes share a time strictly inside
\* the range of the others.
MaxTieKeyframes == 4

TieTemplates ==
  { k \in KfTemplates : k.easing \in {"linear", "elastic", "ease-out"} }

TieInputs == KfTimes \X TieTemplates

InitTies ==
  /\ \E n \in 0..MaxTieKeyframes :
       \E s \in [1..n -> TieInputs] : argKeyframes = asKeyframes(s)
  /\ argEl \in BaseElements
  /\ argTime \in QueryTimes
  /\ result = Pending
  /\ CallIdle
  /\ InitDesigner
  /\ BoxIdle
  /\ SurfaceIdle
  /\ TreeIdle
  /\ WidgetIdle

SpecTies == InitTies /\ [][NextInterp]_vars

\* Repeated calls on one keyframe collection, as made every animation frame
\* and during scrubbing: up to MaxCalls calls at varying times on up to
\* MaxCallKeyframes keyframes.
MaxCallKeyframes == 2
MaxCalls == 3

\* 0 s, 1 s and 10 s
CallTimes == {0, 400, 4000}

InitCalls ==
  /\ \E n \in 0..MaxCallKeyframes :
       \E s \in [1..n -> TieInputs] : argKeyframes = asKeyframes(s)
  /\ argEl \in BaseElements
  /\ argTime \in CallTimes
  /\ result = Pending
  /\ CallIdle
  /\ InitDesigner
  /\ BoxIdle
  /\ SurfaceIdle
  /\ TreeIdle
  /\ WidgetIdle

\* A later call, at any time
CallAgain ==
  /\ result.returned
  /\ Len(callLog) < MaxCalls
  /\ \E time \in CallTimes :
       /\ argTime' = time
       /\ call(time)

NextCalls == CallInterpolate \/ CallAgain

SpecCalls == InitCalls /\ [][NextCalls]_vars

\* ------------------------------------------------------------------------
\* Properties of interpolateElementFromGlobal
\* ------------------------------------------------------------------------
KfTimesOf(kfs) == {kfs[i].time : i \in DOMAIN kfs}
MinOf(S) == CHOOSE m \in S : \A o \in S : m <= o
MaxOf(S) == CHOOSE m \in S : \A o \in S : m >= o
FirstStoredAt(kfs, t) ==
  kfs[MinOf({i \in DOMAIN kfs : kfs[i].time = t})]
LastStoredAt(kfs, t) ==
  kfs[MaxOf({i \in DOMAIN kfs : kfs[i].time = t})]
EntryOf(kf, id) ==
  IF id \in DOMAIN kf.elementStates THEN kf.elementStates[id] ELSE EmptyState

\* The query lies strictly inside the keyframes' time range.
Inside == argKeyframes # <<>> /\ MinOf(KfTimesOf(argKeyframes)) < argTime
                              /\ argTime < MaxOf(KfTimesOf(argKeyframes))
\* The query lies strictly between two keyframe times, on no keyframe.
StrictlyBetween == Inside /\ argTime \notin KfTimesOf(argKeyframes)
PrevTime == MaxOf({t \in KfTimesOf(argKeyframes) : t < argTime})
NextTime == MinOf({t \in KfTimesOf(argKeyframes) : t > argTime})
PrevKf == LastStoredAt(argKeyframes, PrevTime)
NextKf == FirstStoredAt(argKeyframes, NextTime)
PrevEntry == EntryOf(PrevKf, argEl.id)
NextEntry == EntryOf(NextKf, argEl.id)

\* C1: at or before the smallest keyframe time the call returns exactly the
\* snapshot entry of the earliest keyframe, at or after the largest keyframe
\* time exactly the entry of the latest keyframe (among keyframes of equal
\* time the first stored is the earliest and the last stored the latest; when
\* every keyframe has the query time the first stored one is returned).  A
\* single keyframe at 3 s with {opacity: 0.5} yields {opacity: 0.5} at 0 s
\* and at 10 s.
Thm_C1_ClampToEndKeyframes ==
  (result.returned /\ argKeyframes # <<>>) =>
    LET lo == MinOf(KfTimesOf(argKeyframes))
        hi == MaxOf(KfTimesOf(argKeyframes))
    IN  /\ argTime <= lo =>
             result.overrides = EntryOf(FirstStoredAt(argKeyframes, lo), argEl.id)
        /\ (argTime >= hi /\ argTime > lo) =>
             result.overrides = EntryOf(LastStoredAt(argKeyframes, hi), argEl.id)
        /\ argTime >= hi =>
             \E i \in DOMAIN argKeyframes :
                /\ argKeyframes[i].time = hi
                /\ result.overrides = EntryOf(argKeyframes[i], argEl.id)
        /\ ( /\ Len(argKeyframes) = 1
             /\ argKeyframes[1].time = 1200
             /\ argKeyframes[1].elementStates = "e1" :> ("opacity" :> Rat(1, 2))
             /\ argTime \in {0, 4000} )
           => result.overrides = ("opacity" :> Rat(1, 2))

\* Keyframes stored latest-first, queried after the last one.
Wit_C1_AfterLastStoredFirst ==
  /\ result.returned
  /\ Len(argKeyframes) = 2
  /\ argKeyframes[1].time = 1200 /\ argKeyframes[2].time = 0
  /\ argKeyframes[2].elementStates = "e1" :> ("x" :> Num(0))
  /\ argTime = 4000
  /\ result.overrides = ("opacity" :> Rat(1, 2))

\* C2: strictly between a bracketing pair whose earlier keyframe is linear,
\* a numeric property present in both snapshots is a + (b-a)(q-t1)/(t2-t1);
\* {x:0} at 0 s and {x:100} at 2 s give {x:50} at 1 s.
Thm_C2_LinearBlend ==
  (result.returned /\ StrictlyBetween /\ PrevKf.easing = "linear") =>
    /\ \A p \in (DOMAIN PrevEntry \cap DOMAIN NextEntry) \cap NUMERIC_KEYFRAME_PROPS :
         /\ p \in DOMAIN result.overrides
         /\ RMul(RSub(result.overrides[p], PrevEntry[p]), Num(NextTime - PrevTime))
              = RMul(RSub(NextEntry[p], PrevEntry[p]), Num(argTime - PrevTime))
    /\ ( /\ Len(argKeyframes) = 2
         /\ argKeyframes[1].time = 0 /\ argKeyframes[2].time = 800
         /\ argKeyframes[1].elementStates = "e1" :> ("x" :> Num(0))
         /\ argKeyframes[2].elementStates = "e1" :> ("x" :> Num(100))
         /\ argTime = 400 )
       => result.overrides = ("x" :> Num(50))

\* A linear pair that does not start at time 0: {x:0} at 2 s, {x:100} at 3 s.
Wit_C2_LinearMidpoint ==
  /\ result.returned
  /\ StrictlyBetween
  /\ PrevKf.easing = "linear" /\ PrevTime = 800 /\ NextTime = 1200
  /\ argTime = 1000
  /\ result.overrides = ("x" :> Num(50))

\* C3: the easing applied is the one stored on the earlier keyframe: with
\* ease-in on it the progress is rawT squared, with linear (or an
\* unsupported kind) on it the progress is rawT, whatever easing the later
\* keyframe carries; {x:0} ease-in at 0 s and {x:100} at 2 s give x = 25
\* at 1 s.
Thm_C3_EasingOfEarlierKeyframe ==
  (result.returned /\ StrictlyBetween) =>
    LET span == NextTime - PrevTime
        off == argTime - PrevTime
        both == (DOMAIN PrevEntry \cap DOMAIN NextEntry) \cap NUMERIC_KEYFRAME_PROPS
    IN  /\ PrevKf.easing = "ease-in" =>
             \A p \in both :
                RMul(RSub(result.overrides[p], PrevEntry[p]), Num(span * span))
                  = RMul(RSub(NextEntry[p], PrevEntry[p]), Num(off * off))
        /\ PrevKf.easing \in {"linear", "step-end"} =>
             \A p \in both :
                RMul(RSub(result.overrides[p], PrevEntry[p]), Num(span))
                  = RMul(RSub(NextEntry[p], PrevEntry[p]), Num(off))
        /\ ( /\ Len(argKeyframes) = 2
             /\ argKeyframes[1].time = 0 /\ argKeyframes[2].time = 800
             /\ argKeyframes[1].easing = "ease-in"
             /\ argKeyframes[1].elementStates = "e1" :> ("x" :> Num(0))
             /\ argKeyframes[2].elementStates = "e1" :> ("x" :> Num(100))
             /\ argTime = 400 )
           => result.overrides = ("x" :> Num(25))

\* ease-in on the earlier keyframe, elastic on the later one.
Wit_C3_EaseInThenElastic ==
  /\ result.returned
  /\ StrictlyBetween
  /\ PrevKf.easing = "ease-in" /\ NextKf.easing = "elastic"
  /\ PrevTime = 0 /\ NextTime = 800 /\ argTime = 400
  /\ result.overrides = ("x" :> Num(25))

\* C4: a numeric property present in the snapshot of exactly one keyframe of
\* the bracketing pair takes the base element's value of that property for
\* the missing side (0 only when the base element does not define it) and
\* is the eased blend of the two.
Thm_C4_MissingSideIsBaseValue ==
  (result.returned /\ StrictlyBetween) =>
    LET t == easingFn(Rat(argTime - PrevTime, NextTime - PrevTime), PrevKf.easing)
        base(p) == IF p \in DOMAIN argEl.props THEN argEl.props[p] ELSE Zero
    IN  /\ \A p \in (DOMAIN PrevEntry \ DOMAIN NextEntry) \cap NUMERIC_KEYFRAME_PROPS :
             /\ p \in DOMAIN result.overrides
             /\ result.overrides[p]
                  = RAdd(PrevEntry[p], RMul(RSub(base(p), PrevEntry[p]), t))
        /\ \A p \in (DOMAIN NextEntry \ DOMAIN PrevEntry) \cap NUMERIC_KEYFRAME_PROPS :
             /\ p \in DOMAIN result.overrides
             /\ result.overrides[p]
                  = RAdd(base(p), RMul(RSub(NextEntry[p], base(p)), t))

\* {opacity: 1/2} ease-out at 0 s, {x: 0} at 2 s, base {x: 7, opacity: 1},
\* queried at 1 s: progress 3/4, opacity 1/2 -> 1 and x 7 -> 0.
Wit_C4_EachSideMissingOnce ==
  /\ result.returned
  /\ StrictlyBetween
  /\ PrevEntry = ("opacity" :> Rat(1, 2)) /\ PrevKf.easing = "ease-out"
  /\ NextEntry = ("x" :> Num(0))
  /\ PrevTime = 0 /\ NextTime = 800 /\ argTime = 400
  /\ result.overrides = ("opacity" :> Rat(7, 8) @@ "x" :> Rat(7, 4))

\* C5: for every keyframe collection, several keyframes at one time
\* included, the call returns a map of finite numbers; the pair it blends has
\* a positive span, so the progress ratio is never taken over zero; the raw
\* progress of a pair of zero span is 1 and lies in [0, 1] for the pair
\* blended; at a time shared by several keyframes inside the range the
\* result is the blend at progress 1, the values of the first stored of them.
Thm_C5_NoZeroDenominator ==
  result.returned =>
    /\ \A p \in DOMAIN result.overrides : IsFinite(result.overrides[p])
    /\ \A i, j \in DOMAIN argKeyframes :
         argKeyframes[i].time = argKeyframes[j].time =>
           rawProgress(argKeyframes[i], argKeyframes[j], argTime) = One
    /\ Inside =>
         LET sorted == sortByTime(argKeyframes)
             i == bracketIndex(sorted, argTime)
             raw == rawProgress(sorted[i], sorted[i + 1], argTime)
         IN  /\ sorted[i + 1].time - sorted[i].time > 0
             /\ IsFinite(raw) /\ RLeq(Zero, raw) /\ RLeq(raw, One)
    /\ (Inside /\ argTime \in KfTimesOf(argKeyframes)) =>
         LET at == EntryOf(FirstStoredAt(argKeyframes, argTime), argEl.id)
         IN  \A p \in DOMAIN at \cap NUMERIC_KEYFRAME_PROPS :
                p \in DOMAIN result.overrides /\ result.overrides[p] = at[p]

\* Two keyframes at 2 s between one at 0 s and one at 3 s, queried at 2 s.
Wit_C5_SharedTimeInside ==
  /\ result.returned
  /\ Len(argKeyframes) = 4
  /\ Cardinality({i \in DOMAIN argKeyframes : argKeyframes[i].time = 800}) = 2
  /\ Inside
  /\ argTime = 800
  /\ argKeyframes[2].time = 800 /\ argKeyframes[3].time = 800
  /\ argKeyframes[2].elementStates # argKeyframes[3].elementStates
  /\ result.overrides = ("x" :> Num(100))

\* ------------------------------------------------------------------------
\* Properties of the keyframe management operations
\* ------------------------------------------------------------------------
\* A step of addGlobalKeyframe: the only operation that takes a fresh id.
\* Its time argument is the query time after the step (the K shortcut adds
\* at currentTime, the double click sets currentTime to the time it adds at).
AddStep == nextId' = nextId + 1
Undefined == <<0, 0>>

\* renderElements without an overrideTime: the time it interpolates at
timeToUse == currentTime

\* The value of property p an element shows at `time`: the interpolated
\* override, else the base value; scaleX and scaleY default to 1.
EffectiveValue(el, time, kfs, p) ==
  LET props == effectiveProps(el, time, kfs)
  IN  IF p \in DOMAIN props THEN props[p]
      ELSE IF p \in SnapshotOrOne THEN One
      ELSE Undefined

AllElements(els) ==
  LET flat == flattenElements(els) IN {flat[i] : i \in DOMAIN flat}

\* C6: adding a keyframe at t on a timeline that has keyframes leaves the
\* effective value at t of every animatable property of every element as
\* it was before the insertion.
Claim_C6_InsertKeepsScene ==
  [][ (AddStep /\ keyframes # <<>>) =>
        \A el \in AllElements(elements) : \A p \in NUMERIC_KEYFRAME_PROPS :
           EffectiveValue(el, currentTime', keyframes', p)
             = EffectiveValue(el, currentTime', keyframes, p) ]_vars

\* C7: no two distinct keyframes have times within 0.01 s of each other
\* (stated for distances strictly below 0.01 s).
Claim_C7_KeyframesApart ==
  \A i, j \in DOMAIN keyframes :
     i # j => Abs(keyframes[i].time - keyframes[j].time) >= EPS

\* C8: adding a keyframe at a time within 0.01 s of an existing keyframe
\* removes that keyframe and adds exactly one: the count is unchanged, the
\* old id is gone and the new keyframe is the selected one.
Claim_C8_AddReplacesNearby ==
  [][ ( /\ AddStep
        /\ \E i \in DOMAIN keyframes :
              Abs(keyframes[i].time - currentTime') <= EPS )
      => /\ Len(keyframes') = Len(keyframes)
         /\ \A i \in DOMAIN keyframes :
               Abs(keyframes[i].time - currentTime') <= EPS =>
                 \A j \in DOMAIN keyframes' : keyframes'[j].id # keyframes[i].id
         /\ \E j \in DOMAIN keyframes' : keyframes'[j].id = nextId
         /\ selectedKeyframeId' = nextId ]_vars

\* C9: every keyframe's time lies in [0, duration].
Claim_C9_TimesWithinDuration ==
  \A i \in DOMAIN keyframes :
     0 <= keyframes[i].time /\ keyframes[i].time <= duration

\* ------------------------------------------------------------------------
\* Properties of the playback clock
\* ------------------------------------------------------------------------
\* A step of tick: the only step after which more wall-clock time has passed
\* since play.
TickStep == sincePlayStart' > sincePlayStart
\* offset + elapsed * speed as that step computes it
TickRaw == tickRaw(playTimeOffsetRef, sincePlayStart', tickTimeline)

\* C10: with loop off, a tick that computes offset + elapsed * speed >=
\* duration sets the query time to exactly duration, sets the clock to not
\* playing and schedules no further tick; and with ticks scheduled fairly, a
\* playback started with loop off eventually is not playing any more (it
\* stopped at the end, or it was paused or stopped first).
Thm_C10_StopsAtEnd ==
  /\ [][ (TickStep /\ ~tickTimeline.loop /\ TickRaw >= tickTimeline.duration)
           => /\ currentTime' = tickTimeline.duration
              /\ ~isPlaying'
              /\ ~animFrameRef' ]_vars
  /\ (isPlaying /\ ~tickTimeline.loop) ~> ~isPlaying

\* A playback with loop off that ran past the end: stopped at duration.
Wit_C10_StoppedPastEnd ==
  /\ ~isPlaying /\ ~animFrameRef
  /\ ~tickTimeline.loop
  /\ sincePlayStart > 0
  /\ tickRaw(playTimeOffsetRef, sincePlayStart, tickTimeline)
       > tickTimeline.duration
  /\ currentTime = tickTimeline.duration

\* C11: with loop on, a tick whose raw time reaches duration writes the raw
\* time modulo duration, a time in [0, duration); every tick of a looping
\* playback schedules a following tick and leaves the clock playing; a
\* looping playback stops playing only by pause or stop.
Thm_C11_LoopWrapsAndContinues ==
  /\ [][ (TickStep /\ tickTimeline.loop) =>
           /\ TickRaw >= tickTimeline.duration =>
                /\ currentTime' = TickRaw % tickTimeline.duration
                /\ 0 <= currentTime' /\ currentTime' < tickTimeline.duration
           /\ animFrameRef'
           /\ isPlaying' = isPlaying ]_vars
  /\ [][ (isPlaying /\ tickTimeline.loop /\ ~isPlaying') => (Pause \/ Stop) ]_vars

\* A looping playback that ran past the end: wrapped and still playing.
Wit_C11_WrappedStillPlaying ==
  /\ isPlaying /\ animFrameRef
  /\ tickTimeline.loop
  /\ tickRaw(playTimeOffsetRef, sincePlayStart, tickTimeline)
       > tickTimeline.duration
  /\ currentTime = tickRaw(playTimeOffsetRef, sincePlayStart, tickTimeline)
                     % tickTimeline.duration
  /\ currentTime > 0

\* C12: stop, from any clock state, leaves the clock not playing, the query
\* time 0 and no frame callback scheduled; while no callback is scheduled no
\* tick runs, and only play schedules one again.
Thm_C12_StopResets ==
  /\ [][ Stop => (~isPlaying' /\ currentTime' = 0 /\ ~animFrameRef') ]_vars
  /\ [][ ~animFrameRef => ~TickStep ]_vars
  /\ [][ (~animFrameRef /\ animFrameRef') => Play ]_vars

\* Stopped in the middle of a playback, before its end.
Wit_C12_StoppedMidPlayback ==
  /\ ~isPlaying /\ ~animFrameRef
  /\ currentTime = 0
  /\ sincePlayStart > 0
  /\ tickRaw(playTimeOffsetRef, sincePlayStart, tickTimeline)
       < tickTimeline.duration

\* C13: pause leaves the clock not playing with no frame callback scheduled
\* and the query time as the last tick wrote it; play captures the query
\* time as its offset; a tick whose raw time is below duration (no wrap, no
\* clamp) writes the raw time, which is at least the offset.
Thm_C13_ResumeFromPausedTime ==
  /\ [][ Pause => (~isPlaying' /\ ~animFrameRef' /\ currentTime' = currentTime) ]_vars
  /\ [][ Play => (isPlaying' /\ animFrameRef'
                  /\ playTimeOffsetRef' = currentTime
                  /\ currentTime' = currentTime) ]_vars
  /\ [][ (TickStep /\ TickRaw < tickTimeline.duration) =>
           /\ currentTime' = TickRaw
           /\ currentTime' >= playTimeOffsetRef ]_vars

\* Resumed from a paused time and advanced beyond it, before the end.
Wit_C13_ResumedBeyondPause ==
  /\ isPlaying
  /\ playTimeOffsetRef > 0
  /\ sincePlayStart > 0
  /\ currentTime > playTimeOffsetRef
  /\ currentTime < tickTimeline.duration

\* C14: scrubbing and playback are never active together (a mouse down on
\* the time ruler pauses a running playback), and no tick runs, and so none
\* overwrites the scrubbed query time, while the scrub is active.
Claim_C14_ScrubPausesPlayback ==
  /\ [](~(isPlaying /\ isScrubbing))
  /\ [][ isScrubbing => ~TickStep ]_vars

\* C15: changing the duration leaves the stored query time as it is, and
\* what reads the query time afterwards uses a value of at most the new
\* duration: the time rendering interpolates at, and the time the next
\* playback tick writes.
Claim_C15_QueryTimeClampedOnRead ==
  /\ [][ ChangeDuration => currentTime' = currentTime ]_vars
  /\ [](timeToUse <= duration)
  /\ [][ TickStep => currentTime' <= duration ]_vars

\* ------------------------------------------------------------------------
\* Properties of element edits
\* ------------------------------------------------------------------------
\* The ids and properties of the tree's elements, parents before children.
FlatProps(els) ==
  LET flat == flattenElements(els)
  IN  [j \in DOMAIN flat |-> <<flat[j].id, flat[j].props>>]

Within(a, lo, hi) == IsFinite(a) /\ RLeq(Num(lo), a) /\ RLeq(a, Num(hi))

\* The center (x + width / 2, y + height / 2) lies in the container.
CenterInside(x, y, width, height) ==
  /\ Within(RAdd(x, Half(width)), 0, containerW)
  /\ Within(RAdd(y, Half(height)), 0, containerH)

\* C17: the position a move gesture emits places the element's center
\* within [0, containerW] x [0, containerH], whatever the start position,
\* the pointer delta and the zoom scale.
Thm_C17_MoveKeepsCenterInside ==
  emitted.kind = "move" =>
    CenterInside(emitted.patch.x, emitted.patch.y, boxEl.width, boxEl.height)

\* A move was clamped at the container's right edge: the center is on the
\* edge and the box overhangs it.
Wit_C17_ClampedOverhanging ==
  /\ emitted.kind = "move"
  /\ RAdd(emitted.patch.x, Half(boxEl.width)) = Num(containerW)
  /\ RLess(Num(containerW), RAdd(emitted.patch.x, boxEl.width))

\* C18: the width and the height a resize gesture emits are both at least
\* 4, for each handle, rotation and pointer delta.
Thm_C18_ResizeMinimum ==
  emitted.kind = "resize" =>
    /\ IsFinite(emitted.patch.width) /\ IsFinite(emitted.patch.height)
    /\ RLeq(Num(MinSize), emitted.patch.width)
    /\ RLeq(Num(MinSize), emitted.patch.height)

\* A rotated box was shrunk by a corner handle beyond the minimum: both
\* sizes stopped at 4.
Wit_C18_ShrunkToMinimum ==
  /\ emitted.kind = "resize"
  /\ gesture.kind = "resize"
  /\ gesture.dir \in {"ne", "nw", "se", "sw"}
  /\ gesture.rot = 53
  /\ RLess(Num(MinSize), gesture.startW)
  /\ RLess(Num(MinSize), gesture.startH)
  /\ emitted.patch.width = Num(MinSize)
  /\ emitted.patch.height = Num(MinSize)

\* C19: the rounded geometry a resize gesture emits has its center within
\* [0, containerW] x [0, containerH].
Claim_C19_ResizeKeepsCenterInside ==
  emitted.kind = "resize" =>
    CenterInside(emitted.patch.x, emitted.patch.y,
                 emitted.patch.width, emitted.patch.height)

\* C20: a resize by the se handle of an unrotated element emits the x and y
\* the element had when the gesture started, for every pointer delta.
Claim_C20_SouthEastKeepsOrigin ==
  [][ (PointerMove /\ gesture.kind = "resize" /\ gesture.dir = "se"
         /\ gesture.rot = 0) =>
        /\ emitted'.patch.x = gesture.startElX
        /\ emitted'.patch.y = gesture.startElY ]_vars

\* |a|
RAbs(a) == <<Abs(a[1]), a[2]>>

\* C21: a resize by the n handle of an element rotated by 90 degrees, for a
\* horizontal drag of d canvas units that keeps the size above the minimum
\* and the center strictly inside the container, emits an x that differs
\* from the start x by |d| and a y equal to the start y.
Claim_C21_NorthAtQuarterTurn ==
  [][ \A dp \in PointerDeltas :
        (/\ PointerMove
         /\ gesture.kind = "resize" /\ gesture.dir = "n" /\ gesture.rot = 90
         /\ dp[2] = 0
         /\ emitted'.patch = resizeOnMove(gesture, dp[1], dp[2])
         /\ RLess(Num(MinSize), emitted'.patch.height)
         /\ LET cx == RAdd(emitted'.patch.x, Half(emitted'.patch.width))
                cy == RAdd(emitted'.patch.y, Half(emitted'.patch.height))
            IN  /\ RLess(Zero, cx) /\ RLess(cx, Num(containerW))
                /\ RLess(Zero, cy) /\ RLess(cy, Num(containerH)))
        => /\ RAbs(RSub(emitted'.patch.x, gesture.startElX))
                = RAbs(RDiv(Num(dp[1]), gesture.scale))
           /\ emitted'.patch.y = gesture.startElY ]_vars

\* ------------------------------------------------------------------------
\* Properties of the canvas gestures' listeners
\* ------------------------------------------------------------------------
Geometry(el) == <<el.x, el.y, el.width, el.height, el.rotation>>

\* The gestures that have a listener registered
ActiveGestures == {listeners[i].g : i \in DOMAIN listeners}

\* C22: a gesture initiated on a locked element registers no listener (no
\* registered listener belongs to a locked element), and no step changes
\* the x, y, width, height or rotation of an element that is locked before
\* and after it.
Thm_C22_LockedRejectsGestures ==
  /\ [](\A g \in ActiveGestures : ~surface[g.id].locked)
  /\ [][ \A id \in DOMAIN surface :
           (surface[id].locked /\ surface'[id].locked)
             => Geometry(surface'[id]) = Geometry(surface[id]) ]_vars

\* The locked child was pressed with the select tool: it is selected, the
\* button is down and nothing is registered.
Wit_C22_PressedLockedChild ==
  /\ pressed
  /\ selectedId = "e1"
  /\ surface["e1"].locked
  /\ ~isDrawing
  /\ listeners = <<>>

\* C23: at most one gesture is active at a time; a gesture has exactly one
\* move and one up listener registered; a press on a resize handle or on
\* the rotation handle starts no move; after a release no listener remains.
Thm_C23_OneGestureAtATime ==
  /\ [](Cardinality(ActiveGestures) <= 1)
  /\ [](\A g \in ActiveGestures :
          /\ Cardinality({i \in DOMAIN listeners :
                            /\ listeners[i].g = g
                            /\ listeners[i].event \in {"pointermove", "mousemove"}}) = 1
          /\ Cardinality({i \in DOMAIN listeners :
                            /\ listeners[i].g = g
                            /\ listeners[i].event \in {"pointerup", "mouseup"}}) = 1)
  /\ [][ (PressHandle \/ PressRotate) =>
           \A g \in {listeners'[i].g : i \in DOMAIN listeners'} :
             g.kind # "move" ]_vars
  /\ [][ Release => listeners' = <<>> ]_vars

\* A resize of the child inside the group is in flight: its listener pair
\* is the only one.
Wit_C23_ResizingChild ==
  /\ pressed
  /\ Len(listeners) = 2
  /\ listeners[1].g.kind = "resize"
  /\ listeners[1].g.id = "e1"
  /\ surface["e1"].width # StartSurface["e1"].width

\* ------------------------------------------------------------------------
\* Properties of the layer operations
\* ------------------------------------------------------------------------
\* The elements of the tree at every depth, parents before children
AllNodes == flattenElements(tree)

\* How many elements of the tree carry the id
CountOf(nodes, id) ==
  Cardinality({i \in DOMAIN flattenElements(nodes) :
                 flattenElements(nodes)[i].id = id})

\* C24: all element ids of the tree, at every nesting depth, are pairwise
\* distinct after any sequence of layer operations.
Claim_C24_IdsDistinct ==
  \A i, j \in DOMAIN AllNodes : AllNodes[i].id = AllNodes[j].id => i = j

\* No element has an element of its own id among its descendants.
StrictForest ==
  \A i \in DOMAIN AllNodes : AllNodes[i].id \notin idsOf(AllNodes[i].children)

Claim_C30_MoveKeepsElements ==
  \A draggedId \in idsOf(tree), targetId \in idsOf(tree),
     position \in Positions :
    LET after == moveLayer(tree, draggedId, targetId, position)
    IN  \/ after = tree
        \/ /\ idsOf(after) = idsOf(tree)
           /\ Len(flattenElements(after)) = Len(AllNodes)
           /\ CountOf(after, draggedId) = 1
           /\ idsOf(findElement(after, draggedId)[1].children)
                = idsOf(findElement(tree, draggedId)[1].children)

\* The same for trees whose ids are pairwise distinct.
MoveKeepsElementsOfDistinct ==
  Claim_C24_IdsDistinct => Claim_C30_MoveKeepsElements

\* ------------------------------------------------------------------------
\* Interior keyframes
\* ------------------------------------------------------------------------
\* The keyframes of the call lying strictly between the first and the last
\* keyframe time, at the query time
InteriorAtQuery ==
  {i \in DOMAIN argKeyframes :
     /\ argKeyframes[i].time = argTime
     /\ \E j \in DOMAIN argKeyframes : argKeyframes[j].time < argTime
     /\ \E j \in DOMAIN argKeyframes : argKeyframes[j].time > argTime}

\* The call returns the stored value of every numeric property of the
\* keyframe's snapshot for the element
ReturnsStored(i) ==
  LET state == getState(argKeyframes[i], argEl.id)
  IN  \A prop \in DOMAIN state \cap NUMERIC_KEYFRAME_PROPS :
        /\ prop \in DOMAIN result.overrides
        /\ result.overrides[prop] = state[prop]

\* C29: at the exact time of a keyframe strictly between the first and the
\* last keyframe time, the call returns the keyframe's stored value of every
\* numeric property of its snapshot, whichever easing the preceding keyframe
\* carries.
Claim_C29_InteriorKeyframeExact ==
  result.returned => \A i \in InteriorAtQuery : ReturnsStored(i)

\* The same for collections in which no other keyframe shares the time.
InteriorExactWhenAlone ==
  result.returned =>
    \A i \in InteriorAtQuery :
      (\A j \in DOMAIN argKeyframes :
         argKeyframes[j].time = argTime => j = i) => ReturnsStored(i)

Claim_C27_SelectedKeyframeExists ==
  \/ selectedKeyframeId = Null
  \/ \E i \in DOMAIN keyframes : keyframes[i].id = selectedKeyframeId

\* ------------------------------------------------------------------------
\* Scheduled frame callbacks
\* ------------------------------------------------------------------------
\* The number of frame callbacks of the playback clock that are scheduled
scheduledCount == (IF animFrameRef THEN 1 ELSE 0) + orphanFrames

\* C28: at most one frame callback is scheduled at any time, and it is the
\* one animFrameRef refers to, so that pause and stop cancel it; none is
\* scheduled after pause, after stop, or after a non-looping playback has
\* reached duration, and none while the clock is not playing.
Thm_C28_OneFrameScheduled ==
  /\ [](scheduledCount <= 1 /\ orphanFrames = 0)
  /\ [](~isPlaying => scheduledCount = 0)
  /\ [][(Pause \/ Stop) => scheduledCount' = 0]_vars
  /\ [][(TickStep /\ ~tickTimeline.loop /\ TickRaw >= tickTimeline.duration)
          => scheduledCount' = 0]_vars

\* Paused in the middle of the timeline after a tick, played again with a
\* tick, and the playback is running with its one callback scheduled.
Wit_C28_ResumedAfterPause ==
  /\ isPlaying
  /\ scheduledCount = 1
  /\ playTimeOffsetRef > 0
  /\ playTimeOffsetRef < tickTimeline.duration
  /\ sincePlayStart > 0

====
